---- MODULE Spec2Model ----
(***************************************************************************)
(* Model of the learning-management front end: the certificate issuance    *)
(* workflow (CertificateGenerator.tsx, Progress page), the enrollment      *)
(* handlers (CourseEnrollment page), the grading queue (GradingQueue), the  *)
(* past-exam upload form (PastExams page) and the progress aggregation     *)
(* with its completion trigger.                                            *)
(* The backend tables and the object storage are modelled as shared state  *)
(* every browser tab reads and writes one request at a time.               *)
(***************************************************************************)
EXTENDS Integers, Sequences, FiniteSets, TLC

(* ------------------------------ bounds -------------------------------- *)
MaxTime == 1
MaxNotifs == 2
MaxItems == 8
\* the fetches a page may have awaiting their answer when a handler starts
MaxFetches == 1

(* ----------------------------- universes ------------------------------ *)
Courses == {"c1", "c2"}
Tabs == {"t1"}
InvIds == {1, 2}
OneInv == {1}
\* sequence numbers of the rows the backend adds to student_courses
RowSeqs == {0, 1, 2}

Null == <<>>
NoSession == "none"

\* content items and the subject each belongs to
Contents == {"k1", "k2"}
SubjectOfContent(k) == IF k = "k1" THEN "c1" ELSE "c2"

\* a string is the sequence of its UTF-16 code units: "S1" is <<83, 49>>

\* the subject and the year level each course was seeded for: "English" and
\* "Computer Science", "S1" and "S2"
YearLevel(c) == IF c = "c1" THEN <<83, 49>> ELSE <<83, 50>>

\* subjects.name as seedAllCourses writes it: `${subject.name} - ${yearLevel}`
SubjectName(c) ==
    (IF c = "c1" THEN <<69, 110, 103, 108, 105, 115, 104>>
     ELSE <<67, 111, 109, 112, 117, 116, 101, 114, 32, 83, 99, 105, 101, 110, 99, 101>>)
        \o <<32, 45, 32>> \o YearLevel(c)

\* the code units \s and parseFloat take for white space: tab, line feed,
\* vertical tab, form feed, carriage return, space, no-break space, U+1680,
\* U+2000 to U+200A, the line and paragraph separators U+2028 and U+2029,
\* U+202F, U+205F, U+3000 and the byte order mark U+FEFF
WhiteSpace ==
    {9, 10, 11, 12, 13, 32, 160, 5760} \cup (8192..8202)
        \cup {8232, 8233, 8239, 8287, 12288, 65279}
IsSpace(ch) == ch \in WhiteSpace

\* courseName.replace(/\s+/g, "-"): every maximal run of white space becomes one "-"
RECURSIVE ReplaceSpaces(_, _)
ReplaceSpaces(s, inRun) ==
    IF s = <<>> THEN <<>>
    ELSE IF IsSpace(Head(s))
         THEN (IF inRun THEN <<>> ELSE <<45>>) \o ReplaceSpaces(Tail(s), TRUE)
         ELSE <<Head(s)>> \o ReplaceSpaces(Tail(s), FALSE)

\* `${course.subject.name} ${course.subject.year_level}`
CourseName(c) == SubjectName(c) \o <<32>> \o YearLevel(c)

\* `certificate-${courseName.replace(/\s+/g, "-")}-${Date.now()}.pdf`, kept as
\* the parts the template joins
FileName(courseName, ts) == <<"certificate", ReplaceSpaces(courseName, FALSE), ts, "pdf">>

\* `certificates/${studentId}/${fileName}`
CertPath(studentId, fileName) == <<"certificates", studentId>> \o fileName

\* storage.from("content-files").getPublicUrl(path)
PublicUrl(path) == <<"public", "content-files">> \o path

(* ---------------------------- past-exam data --------------------------- *)
ExamTabs == {"e1", "e2"}
\* the PDF files a teacher can choose, by name
Files == {<<"paper-a", "pdf">>, <<"paper-b", "pdf">>}
\* ids the backend hands to new content rows
ExamRowIds == {"x1", "x2"}
\* the subject chosen in the form
ExamSubjects == {"c1"}
\* the title typed into the form: "2023"
ExamTitles == {<<50, 48, 50, 51>>}

(* ----------------------------- grading data ---------------------------- *)
\* the GradingQueue tabs that can be open, and the one followed when a single
\* session grades
AllGradeTabs == {"q1", "q2"}
GradeTabs == {"q1"}
SubIds == {"b1", "b2", "b3"}
Teacher == "tchr"
Undefined == "undefined"

\* table user_roles, and has_role(_user_id, _role) over it
UserRoles == {<<"s1", "student">>, <<"s2", "student">>, <<Teacher, "teacher">>,
              <<"admin", "admin">>}
has_role(userId, role) == <<userId, role>> \in UserRoles

\* assignment_id and student_id of the submissions, points of the assignments;
\* b3 is a draft its student has not handed in
AssignmentOf(id) == IF id = "b2" THEN "a2" ELSE "a1"
SubmitterOf(id) == IF id = "b1" THEN "s1" ELSE "s2"
Drafts == {"b3"}
PointsOf(a) == IF a = "a1" THEN 2 ELSE 1
TeacherOf(a) == Teacher

\* texts the grade input can hold: empty, or a valid floating-point number
\* (digits, an optional fraction, an optional exponent): "", "-1", "0", "1",
\* "2", "1.5", "1e1" and "-1e-324"
GradeTexts ==
    { <<>>, <<45, 49>>, <<48>>, <<49>>, <<50>>, <<49, 46, 53>>,
      <<49, 101, 49>>, <<45, 49, 101, 45, 51, 50, 52>> }
\* texts tried in the bulk grade input (type="number", no min or max): "",
\* "-1", "1" and "2"
BulkGradeTexts == { <<>>, <<45, 49>>, <<49>>, <<50>> }
\* the texts tried in the dialog while batches run or the session changes:
\* "-1", and "2", within the points of one assignment and above those of the
\* other
MixGradeTexts == { <<45, 49>>, <<50>> }
\* the texts tried in the bulk grade input while the dialog is in use too: "-1",
\* and "1", within the points of both assignments
MixBulkGradeTexts == { <<45, 49>>, <<49>> }
Feedbacks == {"good work"}

RECURSIVE Pow10(_)
Pow10(n) == IF n <= 0 THEN 1 ELSE 10 * Pow10(n - 1)

RECURSIVE SkipSpaces(_)
SkipSpaces(s) == IF s # <<>> /\ IsSpace(Head(s)) THEN SkipSpaces(Tail(s)) ELSE s

\* the number of leading decimal digits of s, and their value
RECURSIVE LeadingDigits(_)
LeadingDigits(s) == IF s # <<>> /\ Head(s) \in 48..57 THEN 1 + LeadingDigits(Tail(s)) ELSE 0
RECURSIVE DigitsValue(_, _)
DigitsValue(s, n) == IF n = 0 THEN 0 ELSE 10 * DigitsValue(s, n - 1) + (s[n] - 48)

\* the number of decimal digits of n > 0
RECURSIVE NumDigits(_)
NumDigits(n) == IF n < 10 THEN 1 ELSE 1 + NumDigits(n \div 10)

\* a double is kept as [k, m, e]. A finite one of the normal range is the
\* decimal m / 10^e in lowest form (m is no multiple of 10, and e is negative
\* for 10, 200, ..; zero is m = 0, e = 0); the texts read here have few enough
\* digits for distinct decimals to be distinct doubles. Negative zero, NaN and
\* the two infinities are values of their own, and so is a subnormal (a double
\* between 0 and 2^-1022 in magnitude, of which only the sign is kept)
Decimal(m, e) == [k |-> "finite", m |-> m, e |-> e]
Zero == Decimal(0, 0)
NegZero == [k |-> "-0", m |-> 0, e |-> 0]
NaN == [k |-> "NaN", m |-> 0, e |-> 0]
Infinity == [k |-> "Infinity", m |-> 1, e |-> 0]
Subnormal == [k |-> "subnormal", m |-> 1, e |-> 0]
isNaN(x) == x.k = "NaN"
RECURSIVE Normalize(_)
Normalize(x) ==
    IF x.m = 0 THEN Zero
    ELSE IF x.m % 10 = 0 THEN Normalize([x EXCEPT !.m = @ \div 10, !.e = @ - 1])
    ELSE x

\* -x
Negate(x) ==
    IF x = Zero THEN NegZero
    ELSE IF x = NegZero THEN Zero
    ELSE [x EXCEPT !.m = 0 - @]

\* the double nearest to mag * 10^scale, for mag >= 0 of up to ten digits.
\* With d the number of digits before the decimal point, the value is
\* 0.<digits of mag> * 10^d. From 2^1024 - 2^970 = 1.7976931348623158..e308 on
\* it rounds to Infinity; up to 2^-1075 = 2.4703282292062327..e-324 it rounds
\* to 0; below 2^-1022 = 2.2250738585072014..e-308 it is subnormal
Scaled(mag, scale) ==
    LET d == NumDigits(mag) + scale
        lead == IF NumDigits(mag) > 9 THEN mag \div Pow10(NumDigits(mag) - 9)
                ELSE mag * Pow10(9 - NumDigits(mag))
        tenth == IF NumDigits(mag) > 9 THEN (mag \div Pow10(NumDigits(mag) - 10)) % 10
                 ELSE 0
    IN IF mag = 0 THEN Zero
       ELSE IF d > 309 \/ (d = 309 /\ (lead > 179769313 \/ (lead = 179769313 /\ tenth >= 5)))
       THEN Infinity
       ELSE IF d < 0 - 323 \/ (d = 0 - 323 /\ lead <= 247032822) THEN Zero
       ELSE IF d < 0 - 307
                 \/ (d = 0 - 307 /\ (lead < 222507385 \/ (lead = 222507385 /\ tenth <= 8)))
       THEN Subnormal
       ELSE Normalize(Decimal(mag, 0 - scale))

\* parseFloat: leading white space, optional sign, then Infinity or digits with
\* an optional fraction and an optional exponent; the longest such prefix is
\* read and whatever follows it is ignored. 45 is "-", 43 "+", 46 ".", 101 "e"
\* and 69 "E"
parseFloat(s) ==
    LET t == SkipSpaces(s)
        signed == t # <<>> /\ Head(t) \in {45, 43}
        neg == t # <<>> /\ Head(t) = 45
        u == IF signed THEN Tail(t) ELSE t
        ni == LeadingDigits(u)
        afterInt == SubSeq(u, ni + 1, Len(u))
        hasDot == afterInt # <<>> /\ Head(afterInt) = 46
        frac == IF hasDot THEN Tail(afterInt) ELSE <<>>
        nf == LeadingDigits(frac)
        mag == DigitsValue(u, ni) * Pow10(nf) + DigitsValue(frac, nf)
        afterMant == IF hasDot THEN SubSeq(frac, nf + 1, Len(frac)) ELSE afterInt
        hasE == afterMant # <<>> /\ Head(afterMant) \in {101, 69}
        afterE == IF hasE THEN Tail(afterMant) ELSE <<>>
        expSigned == afterE # <<>> /\ Head(afterE) \in {45, 43}
        expNeg == afterE # <<>> /\ Head(afterE) = 45
        expDigits == IF expSigned THEN Tail(afterE) ELSE afterE
        ne == LeadingDigits(expDigits)
        expValue == IF expNeg THEN 0 - DigitsValue(expDigits, ne)
                    ELSE DigitsValue(expDigits, ne)
        value == Scaled(mag, expValue - nf)
    IN IF Len(u) >= 8 /\ SubSeq(u, 1, 8) = <<73, 110, 102, 105, 110, 105, 116, 121>>
       THEN (IF neg THEN [Infinity EXCEPT !.m = 0 - 1] ELSE Infinity)
       ELSE IF ni = 0 /\ nf = 0 THEN NaN
       ELSE IF neg THEN Negate(value) ELSE value

\* gradeNum < 0: NaN and the two zeros are not
IsNegative(gradeNum) == gradeNum.m < 0

\* gradeNum > points, for an integer points
ExceedsPoints(gradeNum, points) ==
    CASE gradeNum.k = "NaN" -> FALSE
      [] gradeNum.k = "Infinity" -> gradeNum.m > 0
      [] gradeNum.k = "-0" -> 0 > points
      [] gradeNum.k = "subnormal" -> IF gradeNum.m > 0 THEN points <= 0 ELSE points < 0
      [] gradeNum.k = "finite" ->
            IF gradeNum.e >= 10
            THEN IF gradeNum.m > 0 THEN points <= 0 ELSE points < 0
            ELSE IF gradeNum.e >= 0
            THEN points < 0 - ((0 - gradeNum.m) \div Pow10(gradeNum.e))
            ELSE IF gradeNum.e <= 0 - 10 THEN gradeNum.m > 0
            ELSE gradeNum.m > points \div Pow10(0 - gradeNum.e)

\* isNaN(gradeNum) || gradeNum < 0 || gradeNum > assignment.points
GradeOutOfRangeNoFloor(gradeNum, points) ==
    isNaN(gradeNum) \/ ExceedsPoints(gradeNum, points)
GradeOutOfRangeNoCeiling(gradeNum, points) ==
    isNaN(gradeNum) \/ IsNegative(gradeNum)
GradeOutOfRange(gradeNum, points) ==
    isNaN(gradeNum) \/ IsNegative(gradeNum) \/ ExceedsPoints(gradeNum, points)

\* a number as the JSON body of a request carries it: -0 is sent as 0, and
\* NaN and the infinities as null
JsonNumber(x) ==
    IF x.k \in {"NaN", "Infinity"} THEN Null
    ELSE IF x = NegZero THEN <<Zero>>
    ELSE <<x>>

VARIABLES
    now,              \* the latest clock reading handed out (Date.now(), now())
    student_courses,  \* table student_courses: a set of rows
    storage,          \* object paths present in bucket content-files
    notifications,    \* table notifications: a sequence of inserted rows
    session,          \* the browser's auth session, shared by its tabs: a student or NoSession
    completedCourses, \* per Progress tab: state completedCourses
    generatingCert,   \* per Progress tab: state generatingCert
    inv,              \* handleGenerateCertificate invocations
    content_progress, \* table content_progress: a set of rows
    row_seq,          \* how many student_courses rows the backend has handed an id
    enroll,           \* per course: the handleEnroll invocation in flight
    progressFetches,  \* per Progress tab: fetchProgress calls awaiting their answer
    assignment_submissions, \* table assignment_submissions, by id
    teacherSession,   \* auth session of the grading browser: a user id or NoSession
    submissions,      \* per GradingQueue tab: state submissions (the loaded queue)
    grading,          \* per GradingQueue tab: state grading
    selectedSubmission, \* per GradingQueue tab: state selectedSubmission
    grade,            \* per GradingQueue tab: state grade (text of the input)
    selectedSubmissions, \* per GradingQueue tab: state selectedSubmissions, in insertion order
    bulkGrade,        \* per GradingQueue tab: state bulkGrade (text of the input)
    toasts,           \* per GradingQueue tab: the toasts raised since the last handler started
    work,             \* per GradingQueue tab: the grading workflow in flight
    queueFetches,     \* per GradingQueue tab: the fetchSubmissions calls awaiting their
                      \* getSession (session) and those awaiting their query (select)
    content,          \* table content: a set of rows
    stored_file,      \* the file each object uploaded by the past-exam form holds
    selectedFile,     \* per PastExams tab: state selectedFile
    uploading,        \* per PastExams tab: state uploading
    pastExams,        \* per PastExams tab: state pastExams (ids of the listed rows)
    exam,             \* per PastExams tab: the handleSubmit invocation in flight
    examFetches,      \* per PastExams tab: fetchPastExams calls awaiting their answer
    loading,          \* per PastExams tab: the skeleton is shown instead of the page
    isTeacher,        \* per PastExams tab: the upload form is rendered
    authCheck         \* per PastExams tab: where the checkAuth of the page stands

enrollVars == <<row_seq, enroll>>

certVars == <<student_courses, storage, session, completedCourses, generatingCert, inv,
              content_progress, enrollVars, progressFetches>>

bulkVars == <<selectedSubmissions, bulkGrade>>

gradeVars == <<assignment_submissions, teacherSession, submissions, grading,
               selectedSubmission, grade, bulkVars, toasts, work, queueFetches>>

examVars == <<content, stored_file, selectedFile, uploading, pastExams, exam, examFetches,
              loading, isTeacher, authCheck>>

vars == <<now, notifications, certVars, gradeVars, examVars>>

\* gen_random_uuid() of the n-th row inserted into student_courses
RowId(n) == <<"student_courses", n>>

FreeInv == [pc |-> "free", tab |-> "t1", rowId |-> RowId(0), courseId |-> "c1",
            studentId |-> "s1", fileName |-> Null, url |-> Null, result |-> Null,
            saved |-> FALSE, steps |-> <<>>, replaced |-> {}]

\* the progress a new enrollment starts with
DefaultProgress == 0

\* the columns of a freshly inserted student_courses row: the id the backend
\* generated, the two columns the insert sends, and the column defaults
NewRowCompleted(id, studentId, subjectId) ==
    [id |-> id, student_id |-> studentId, subject_id |-> subjectId,
     progress |-> DefaultProgress, completed |-> TRUE, completed_at |-> Null,
     certificate_url |-> Null]
NewRow(id, studentId, subjectId) ==
    [id |-> id, student_id |-> studentId, subject_id |-> subjectId,
     progress |-> DefaultProgress, completed |-> FALSE, completed_at |-> Null,
     certificate_url |-> Null]

\* no handleEnroll is running for the course
IdleEnroll == [pc |-> "idle", user |-> Undefined]


\* a submission waiting in the grading queue
SubmittedRow(id) ==
    [id |-> id, assignment_id |-> AssignmentOf(id), student_id |-> SubmitterOf(id),
     status |-> "submitted", grade |-> Null, feedback |-> Null,
     graded_at |-> Null, graded_by |-> Null]

\* no grading handler is running; user is session?.user.id of the session
\* getSession gave the handler, auth the session whose token the request in
\* flight was sent with, at the new Date() of the update it issued last,
\* subs the submissions list the running handleBulkGrade was created with,
\* queue and size are its loop state, and changed, failed, invalid and inserted
\* record what the batch has done so far
IdleWork == [pc |-> "idle", sub |-> Null, gradeNum |-> NaN, feedback |-> Null,
             user |-> Undefined, auth |-> NoSession, at |-> Null, subs |-> {},
             queue |-> <<>>, size |-> 0,
             changed |-> {}, failed |-> {}, invalid |-> {}, inserted |-> 0]

\* a content row
ContentRow(id, title, contentType, subjectId, teacherId, filePath) ==
    [id |-> id, title |-> title, content_type |-> contentType, subject_id |-> subjectId,
     teacher_id |-> teacherId, file_path |-> filePath]

\* the content the subjects start with: one lesson each, "Lesson", of type
\* text and without a file
SeedContent ==
    {ContentRow(k, <<76, 101, 115, 115, 111, 110>>, "text", SubjectOfContent(k), Teacher, Null) :
        k \in Contents}

\* content of other kinds: a book of the library, "Biology S1", and a file a
\* teacher shared that is no past exam, "Chapter 1 notes"
OtherContent ==
    {ContentRow("book1", <<66, 105, 111, 108, 111, 103, 121, 32, 83, 49>>, "book", "c1",
                Teacher, <<"books", 0, "pdf">>),
     ContentRow("file1", <<67, 104, 97, 112, 116, 101, 114, 32, 49, 32, 110, 111, 116, 101,
                           115>>, "file", "c1", Teacher, <<"notes", 0, "pdf">>)}


\* no handleSubmit of the PastExams page is running
IdleExam == [pc |-> "idle", file |-> Null, title |-> Null, subject |-> Null,
             user |-> Undefined, fileName |-> Null]

\* an enrollment the completion trigger has completed at time 0
CompletedRow(n, studentId, subjectId) ==
    [NewRow(RowId(n), studentId, subjectId) EXCEPT
        !.progress = 100, !.completed = TRUE, !.completed_at = <<0>>]

\* rows of student_courses that belong to a student of another browser
OtherEnrollments == {CompletedRow(0, "s2", "c1")}

InitOf(items, enrollments, objects) ==
    /\ now = 0
    /\ student_courses = enrollments
    /\ storage = objects
    /\ notifications = <<>>
    /\ session = "s1"
    /\ completedCourses = [t \in Tabs |-> {}]
    /\ generatingCert = [t \in Tabs |-> Null]
    /\ inv = [i \in InvIds |-> FreeInv]
    /\ content_progress = {}
    /\ row_seq = Cardinality(enrollments) - 1
    /\ enroll = [c \in Courses |-> IdleEnroll]
    /\ progressFetches = [t \in Tabs |-> 0]
    /\ assignment_submissions =
          [id \in SubIds |-> IF id \in Drafts
                             THEN [SubmittedRow(id) EXCEPT !.status = "draft"]
                             ELSE SubmittedRow(id)]
    /\ teacherSession = Teacher
    /\ submissions = [q \in AllGradeTabs |-> {}]
    /\ grading = [q \in AllGradeTabs |-> FALSE]
    /\ selectedSubmission = [q \in AllGradeTabs |-> Null]
    /\ grade = [q \in AllGradeTabs |-> <<>>]
    /\ selectedSubmissions = [q \in AllGradeTabs |-> <<>>]
    /\ bulkGrade = [q \in AllGradeTabs |-> <<>>]
    /\ toasts = [q \in AllGradeTabs |-> <<>>]
    /\ work = [q \in AllGradeTabs |-> IdleWork]
    /\ queueFetches = [q \in AllGradeTabs |-> [session |-> 0, select |-> 0]]
    /\ content = items
    /\ stored_file = {}
    /\ selectedFile = [e \in ExamTabs |-> Null]
    /\ uploading = [e \in ExamTabs |-> FALSE]
    /\ pastExams = [e \in ExamTabs |-> {}]
    /\ exam = [e \in ExamTabs |-> IdleExam]
    /\ examFetches = [e \in ExamTabs |-> 0]
    /\ loading = [e \in ExamTabs |-> TRUE]
    /\ isTeacher = [e \in ExamTabs |-> FALSE]
    /\ authCheck = [e \in ExamTabs |-> [pc |-> "none", user |-> Undefined]]

InitWith(items, enrollments) == InitOf(items, enrollments, {})

Init == InitWith(SeedContent, OtherEnrollments)

\* the content table also holds rows of other kinds, with their files stored
InitExams == InitOf(SeedContent \cup OtherContent, OtherEnrollments,
           {x.file_path : x \in OtherContent})

\* student s1 has completed both courses
InitCert ==
    InitWith(SeedContent,
             OtherEnrollments \cup {CompletedRow(1, "s1", "c1"), CompletedRow(2, "s1", "c2")})

\* student s1 is enrolled in course c1, which has n lessons
LessonsOf(n) ==
    {ContentRow(i, <<76, 101, 115, 115, 111, 110>>, "text", "c1", Teacher, Null) : i \in 1..n}
InitProgress ==
    \E n \in 0..MaxItems :
        InitWith(LessonsOf(n), OtherEnrollments \cup {NewRow(RowId(1), "s1", "c1")})

\* a clock never runs backwards: what a reading taken now can return
ClockReadings == now..MaxTime

\* ------------------------- backend primitives --------------------------

\* storage upload(path, blob, {upsert: false}): accepted only at an unused path
UploadAcceptedUpsert(objects, path) == TRUE
UploadAccepted(objects, path) == path \notin objects

\* .update({certificate_url}).eq("student_id", ..).eq("subject_id", ..)
UpdateCertificateUrlAnyCourse(rows, studentId, courseId, url) ==
    {IF r.student_id = studentId
        THEN [r EXCEPT !.certificate_url = url] ELSE r : r \in rows}
UpdateCertificateUrlIfUnset(rows, studentId, courseId, url) ==
    {IF r.student_id = studentId /\ r.subject_id = courseId /\ r.certificate_url = Null
        THEN [r EXCEPT !.certificate_url = url] ELSE r : r \in rows}
UpdateCertificateUrl(rows, studentId, courseId, url) ==
    {IF r.student_id = studentId /\ r.subject_id = courseId
        THEN [r EXCEPT !.certificate_url = url] ELSE r : r \in rows}

\* .delete().eq("student_id", ..).eq("subject_id", ..)
DeleteEnrollmentKeepsRow(rows, studentId, subjectId) == rows
DeleteEnrollment(rows, studentId, subjectId) ==
    {r \in rows : ~(r.student_id = studentId /\ r.subject_id = subjectId)}

\* .select(..).eq("student_id", ..).eq("completed", true), as kept in completedCourses
SelectCompleted(rows, studentId) ==
    {[id |-> r.id, subject_id |-> r.subject_id] :
        r \in {x \in rows : x.student_id = studentId /\ x.completed}}

\* a returned generateCertificate resumes its caller before any other event is handled
Quiescent == \A i \in InvIds : inv[i].pc # "finish"

\* content_progress references users and content, not student_courses: deleting
\* an enrollment cascades to none of its rows
CascadeOfDropToProgress(progress, studentId, subjectId) ==
    {r \in progress : ~(r.student_id = studentId /\ SubjectOfContent(r.content_id) = subjectId)}
CascadeOfDrop(progress, studentId, subjectId) == progress

\* ------------------------- CourseEnrollment page ------------------------

\* the insert is refused when the student already has a row for the subject
InsertAccepted(rows, studentId, subjectId) ==
    \A r \in rows : ~(r.student_id = studentId /\ r.subject_id = subjectId)

\* notifications.user_id is NOT NULL, and the row-level policy admits only rows
\* whose user_id is the inserting user
NotificationAccepted(authUser, row) ==
    row.user_id # Undefined /\ authUser = row.user_id

\* .from("notifications").insert(row): the table gets one more row, with the
\* id the backend generated for it
InsertNotificationReplacing(rows, row) ==
    <<[id |-> <<"notifications", Len(rows) + 1>>, user_id |-> row.user_id, type |-> row.type]>>
InsertNotification(rows, row) ==
    Append(rows, [id |-> <<"notifications", Len(rows) + 1>>, user_id |-> row.user_id,
                  type |-> row.type])

\* the notification handleEnroll inserts
EnrollNotification(user) == [user_id |-> user, type |-> "course_enrolled"]

\* handleEnroll up to its first request: getUser, then the insert into
\* student_courses is issued
handleEnroll(subjectId) ==
    /\ Quiescent
    /\ session # NoSession
    /\ enroll[subjectId].pc = "idle"
    /\ row_seq + Cardinality({c \in Courses : enroll[c].pc = "insert"}) + 1 \in RowSeqs
    /\ enroll' = [enroll EXCEPT ![subjectId] = [pc |-> "insert", user |-> session]]
    /\ UNCHANGED <<now, student_courses, storage, notifications, session,
                   completedCourses, generatingCert, inv, row_seq, progressFetches>>
    /\ UNCHANGED <<gradeVars, content_progress, examVars>>

\* the insert into student_courses returns: on an error the handler ends in its
\* catch block, else the notification insert is issued
enrollInsertReturns(subjectId) ==
    /\ Quiescent
    /\ enroll[subjectId].pc = "insert"
    /\ \E backendOk \in BOOLEAN :
        IF backendOk /\ InsertAccepted(student_courses, enroll[subjectId].user, subjectId)
        THEN /\ student_courses' = student_courses \cup
                    {NewRow(RowId(row_seq + 1), enroll[subjectId].user, subjectId)}
             /\ row_seq' = row_seq + 1
             /\ enroll' = [enroll EXCEPT ![subjectId].pc = "notify"]
        ELSE /\ enroll' = [enroll EXCEPT ![subjectId] = IdleEnroll]
             /\ UNCHANGED <<student_courses, row_seq>>
    /\ UNCHANGED <<now, storage, notifications, session, completedCourses,
                   generatingCert, inv, progressFetches>>
    /\ UNCHANGED <<gradeVars, content_progress, examVars>>

\* the notification insert of handleEnroll returns; its error is not looked at
enrollNotifyReturns(subjectId) ==
    /\ Quiescent
    /\ enroll[subjectId].pc = "notify"
    /\ \E notifyOk \in BOOLEAN :
        LET row == EnrollNotification(enroll[subjectId].user) IN
        /\ notifyOk => Len(notifications) < MaxNotifs
        /\ notifications' =
              IF notifyOk /\ NotificationAccepted(session, row)
              THEN InsertNotification(notifications, row) ELSE notifications
    /\ enroll' = [enroll EXCEPT ![subjectId] = IdleEnroll]
    /\ UNCHANGED <<now, student_courses, storage, session, completedCourses,
                   generatingCert, inv, row_seq, progressFetches>>
    /\ UNCHANGED <<gradeVars, content_progress, examVars>>

\* handleDrop: delete the enrollment row(s) of (user, subject)
handleDrop(subjectId) ==
    /\ Quiescent
    /\ session # NoSession
    /\ \E r \in student_courses : r.student_id = session /\ r.subject_id = subjectId
    /\ student_courses' = DeleteEnrollment(student_courses, session, subjectId)
    /\ content_progress' = CascadeOfDrop(content_progress, session, subjectId)
    /\ UNCHANGED <<now, storage, notifications, session, completedCourses,
                   generatingCert, inv, enrollVars, progressFetches>>
    /\ UNCHANGED <<gradeVars, examVars>>

\* Course Completion Trigger: the enrollment reaches progress 100
CompletionTrigger(subjectId) ==
    /\ Quiescent
    /\ session # NoSession
    /\ \E r \in student_courses, t \in ClockReadings :
        /\ r.student_id = session /\ r.subject_id = subjectId
        /\ ~r.completed
        /\ now' = t
        /\ student_courses' = (student_courses \ {r}) \cup
              {[r EXCEPT !.progress = 100, !.completed = TRUE, !.completed_at = <<t>>]}
    /\ UNCHANGED <<storage, notifications, session, completedCourses,
                   generatingCert, inv, enrollVars, progressFetches>>
    /\ UNCHANGED <<gradeVars, content_progress, examVars>>

\* a content item is viewed: the student's row for it is upserted
RecordContentProgress(k, done) ==
    /\ Quiescent
    /\ session # NoSession
    /\ \E x \in content : x.id = k
    /\ LET row == [student_id |-> session, content_id |-> k, completed |-> done] IN
        /\ row \notin content_progress
        /\ content_progress' =
              {r \in content_progress : ~(r.student_id = session /\ r.content_id = k)}
                  \cup {row}
    /\ UNCHANGED <<now, student_courses, storage, notifications, session,
                   completedCourses, generatingCert, inv, enrollVars, progressFetches>>
    /\ UNCHANGED <<gradeVars, examVars>>

\* Math.round of num/den for num >= 0 and den > 0: the nearest integer, halves up
RoundDown(num, den) == num \div den
Round(num, den) == (2 * num + den) \div (2 * den)

\* the content items of a course, and those a student has completed
ItemsOf(items, subjectId) == {x.id : x \in {y \in items : y.subject_id = subjectId}}
CompletedOf(records, studentId, ids) ==
    {r.content_id : r \in {x \in records :
        x.student_id = studentId /\ x.content_id \in ids /\ x.completed}}

\* Progress Aggregation: the percentage of a course's items the student completed
ProgressAggregation(items, records, studentId, subjectId) ==
    LET N == Cardinality(ItemsOf(items, subjectId))
        K == Cardinality(CompletedOf(records, studentId, ItemsOf(items, subjectId)))
    IN IF N = 0 THEN 0 ELSE Round(K * 100, N)

\* Course Completion Trigger on an aggregated progress p read at time t: a
\* completed enrollment is left as it is
TriggerCompletionRestamps(row, p, t) ==
    IF p >= 100
    THEN [row EXCEPT !.progress = p, !.completed = TRUE, !.completed_at = <<t>>]
    ELSE [row EXCEPT !.progress = p]
TriggerCompletion(row, p, t) ==
    IF row.completed THEN row
    ELSE IF p >= 100
         THEN [row EXCEPT !.progress = p, !.completed = TRUE, !.completed_at = <<t>>]
         ELSE [row EXCEPT !.progress = p]

\* the progress of the student's enrollment is aggregated and persisted; a
\* failed write leaves the row as it was
AggregateProgress(subjectId) ==
    /\ Quiescent
    /\ session # NoSession
    /\ \E r \in student_courses, t \in ClockReadings, persistOk \in BOOLEAN :
        /\ r.student_id = session /\ r.subject_id = subjectId
        /\ now' = t
        /\ student_courses' =
              IF persistOk
              THEN (student_courses \ {r}) \cup
                     {TriggerCompletion(r,
                         ProgressAggregation(content, content_progress, session, subjectId), t)}
              ELSE student_courses
    /\ UNCHANGED <<storage, notifications, session, completedCourses,
                   generatingCert, inv, enrollVars, progressFetches>>
    /\ UNCHANGED <<gradeVars, content_progress, examVars>>

\* ------------------------------ Progress page ---------------------------

InFlight(t) == {i \in InvIds : inv[i].pc # "free" /\ inv[i].tab = t}

\* how a fetchProgress call can end once its session is read: both queries
\* answered, the quiz_attempts query failed, or the student_courses query failed

\* what fetchProgress leaves in completedCourses: without a session or after a
\* failed quiz_attempts query it returns early; the error of the student_courses
\* query is not looked at, and its missing data becomes the empty list
FetchedCourses(t, outcome) ==
    IF session = NoSession \/ outcome = "attempts_error"
    THEN completedCourses[t]
    ELSE IF outcome = "courses_error" THEN {}
    ELSE SelectCompleted(student_courses, session)

\* the page is opened or reloaded: fresh component state, and the effect calls
\* fetchProgress; answers to the calls of the page it replaces are dropped
LoadProgressPage(t) ==
    /\ Quiescent
    /\ InFlight(t) = {}
    /\ completedCourses' = [completedCourses EXCEPT ![t] = {}]
    /\ generatingCert' = [generatingCert EXCEPT ![t] = Null]
    /\ progressFetches' = [progressFetches EXCEPT ![t] = 1]
    /\ UNCHANGED <<now, student_courses, storage, notifications, session,
                   inv, enrollVars>>
    /\ UNCHANGED <<gradeVars, content_progress, examVars>>

\* a fetchProgress call gets its answers and sets completedCourses
fetchProgressReturns(t) ==
    /\ Quiescent
    /\ progressFetches[t] > 0
    /\ progressFetches' = [progressFetches EXCEPT ![t] = @ - 1]
    /\ \E outcome \in {"ok", "attempts_error", "courses_error"} :
        completedCourses' = [completedCourses EXCEPT ![t] = FetchedCourses(t, outcome)]
    /\ UNCHANGED <<now, student_courses, storage, notifications, session,
                   generatingCert, inv, enrollVars>>
    /\ UNCHANGED <<gradeVars, content_progress, examVars>>

\* the button is disabled while generatingCert === course.id
ButtonEnabled(t, course) == generatingCert[t] # <<course.id>>

\* click on Generate/Download: handleGenerateCertificate(course) starts
ClickGenerate(t, i) ==
    /\ Quiescent
    /\ inv[i].pc = "free"
    /\ \A j \in InvIds : j < i => inv[j].pc # "free"
    /\ Cardinality(InFlight(t)) + progressFetches[t] < Cardinality(InvIds)
    /\ \E course \in completedCourses[t] :
        /\ ButtonEnabled(t, course)
        /\ inv' = [inv EXCEPT ![i] = [FreeInv EXCEPT !.pc = "start", !.tab = t,
                       !.rowId = course.id, !.courseId = course.subject_id]]
    /\ UNCHANGED <<now, student_courses, storage, notifications, session,
                   completedCourses, generatingCert, enrollVars, progressFetches>>
    /\ UNCHANGED <<gradeVars, content_progress, examVars>>

\* getSession and the profile read resolve; generateCertificate renders and
\* names the file, then issues the upload
StartGeneration(i) ==
    /\ Quiescent
    /\ inv[i].pc = "start"
    /\ IF session = NoSession
       THEN /\ inv' = [inv EXCEPT ![i] = FreeInv]
            /\ UNCHANGED <<generatingCert, now>>
       ELSE \E t \in ClockReadings :
            /\ now' = t
            /\ inv' = [inv EXCEPT ![i].pc = "upload",
                        ![i].studentId = session,
                        ![i].fileName = FileName(CourseName(inv[i].courseId), t)]
            /\ generatingCert' = [generatingCert EXCEPT ![inv[i].tab] = <<inv[i].rowId>>]
    /\ UNCHANGED <<student_courses, storage, notifications, session,
                   completedCourses, enrollVars, progressFetches>>
    /\ UNCHANGED <<gradeVars, content_progress, examVars>>

\* the catch block: toast, pdf.save(fileName), return null
CaughtReturnsUrl(r, step) ==
    [r EXCEPT !.pc = "finish", !.saved = TRUE, !.result = r.url,
              !.steps = Append(r.steps, step)]
CaughtNoSave(r, step) ==
    [r EXCEPT !.pc = "finish", !.result = Null, !.steps = Append(r.steps, step)]
Caught(r, step) ==
    [r EXCEPT !.pc = "finish", !.saved = TRUE, !.result = Null,
              !.steps = Append(r.steps, step)]

\* the upload returned an error: `if (uploadError) throw uploadError`
AfterUploadErrorIgnored(r) ==
    [r EXCEPT !.pc = "update",
              !.url = PublicUrl(CertPath(r.studentId, r.fileName)),
              !.steps = r.steps \o <<"upload_error", "public_url">>]
AfterUploadError(r) == Caught(r, "upload_error")

\* the upload succeeded: getPublicUrl, then the update is issued
AfterUploadOk(r) ==
    [r EXCEPT !.pc = "update",
              !.url = PublicUrl(CertPath(r.studentId, r.fileName)),
              !.steps = r.steps \o <<"upload_ok", "public_url">>]

UploadCertificate(i) ==
    /\ Quiescent
    /\ inv[i].pc = "upload"
    /\ LET path == CertPath(inv[i].studentId, inv[i].fileName) IN
       \E backendOk \in BOOLEAN :
        IF backendOk /\ UploadAccepted(storage, path)
        THEN /\ storage' = storage \cup {path}
             /\ inv' = [inv EXCEPT ![i] = AfterUploadOk(inv[i])]
        ELSE /\ inv' = [inv EXCEPT ![i] = AfterUploadError(inv[i])]
             /\ UNCHANGED storage
    /\ UNCHANGED <<now, student_courses, notifications, session,
                   completedCourses, generatingCert, enrollVars, progressFetches>>
    /\ UNCHANGED <<gradeVars, content_progress, examVars>>

\* the update succeeded: pdf.save(fileName), toast, return urlData.publicUrl
AfterUpdateOk(r) ==
    [r EXCEPT !.pc = "finish", !.saved = TRUE, !.result = r.url,
              !.steps = r.steps \o <<"update_ok", "save">>]

UpdateEnrollment(i) ==
    /\ Quiescent
    /\ inv[i].pc = "update"
    /\ \E backendOk \in BOOLEAN :
        IF backendOk
        THEN /\ student_courses' = UpdateCertificateUrl(student_courses,
                                       inv[i].studentId, inv[i].courseId, inv[i].url)
             /\ inv' = [inv EXCEPT ![i] = [AfterUpdateOk(inv[i]) EXCEPT !.replaced =
                    {r.certificate_url : r \in {x \in student_courses :
                        /\ x.student_id = inv[i].studentId
                        /\ x.subject_id = inv[i].courseId
                        /\ x.certificate_url # Null}}]]
        ELSE /\ inv' = [inv EXCEPT ![i] = Caught(inv[i], "update_error")]
             /\ UNCHANGED student_courses
    /\ UNCHANGED <<now, storage, notifications, session, completedCourses,
                   generatingCert, enrollVars, progressFetches>>
    /\ UNCHANGED <<gradeVars, content_progress, examVars>>

\* generateCertificate returned: setGeneratingCert(null), and fetchProgress()
\* is called without being awaited
FinishGeneration(i) ==
    /\ inv[i].pc = "finish"
    /\ generatingCert' = [generatingCert EXCEPT ![inv[i].tab] = Null]
    /\ progressFetches' = [progressFetches EXCEPT ![inv[i].tab] = @ + 1]
    /\ inv' = [inv EXCEPT ![i] = FreeInv]
    /\ UNCHANGED <<now, student_courses, storage, notifications, session,
                   completedCourses, enrollVars>>
    /\ UNCHANGED <<gradeVars, content_progress, examVars>>

\* ----------------------------- GradingQueue page -----------------------

\* the columns the queue query selects; student_id and assignment_id are not among them
SelectAnyStatus(rows) ==
    {[id |-> id, status |-> rows[id].status, points |-> PointsOf(rows[id].assignment_id)] :
        id \in SubIds}
SelectSubmitted(rows) ==
    {[id |-> id, status |-> rows[id].status, points |-> PointsOf(rows[id].assignment_id)] :
        id \in {x \in SubIds : rows[x].status = "submitted"}}

\* (submission as any).student_id
StudentIdOf(sub) == IF "student_id" \in DOMAIN sub THEN sub.student_id ELSE Undefined

\* the fetchSubmissions calls of the page that have not ended yet
PendingFetches(q) == queueFetches[q].session + queueFetches[q].select

\* the policies on assignment_submissions: a row is open to its student, to the
\* teacher of its assignment and to an admin; an update of a row not open to the
\* user changes nothing
MayGradeUnchecked(authUser, row) == TRUE
MayGrade(authUser, row) ==
    \/ authUser = row.student_id
    \/ authUser = TeacherOf(row.assignment_id)
    \/ has_role(authUser, "admin")

\* .update({grade, feedback, status, graded_at, graded_by}).eq("id", id)
GradedRow(row, w) ==
    [row EXCEPT !.grade = JsonNumber(w.gradeNum), !.feedback = <<w.feedback>>,
                !.status = "graded", !.graded_at = <<w.at>>,
                !.graded_by = IF w.user = Undefined THEN @ ELSE <<w.user>>]

\* the page is opened or reloaded: fresh component state, and the effect calls
\* fetchSubmissions; answers to the calls of the page it replaces are dropped.
\* While loading is true the page is a skeleton without controls; every control
\* below needs a row of submissions, which the first answered query sets
\* together with setLoading(false)
LoadGradingQueue(q) ==
    /\ work[q].pc = "idle"
    /\ submissions' = [submissions EXCEPT ![q] = {}]
    /\ toasts' = [toasts EXCEPT ![q] = <<>>]
    /\ queueFetches' = [queueFetches EXCEPT ![q] = [session |-> 1, select |-> 0]]
    /\ grading' = [grading EXCEPT ![q] = FALSE]
    /\ selectedSubmission' = [selectedSubmission EXCEPT ![q] = Null]
    /\ grade' = [grade EXCEPT ![q] = <<>>]
    /\ selectedSubmissions' = [selectedSubmissions EXCEPT ![q] = <<>>]
    /\ bulkGrade' = [bulkGrade EXCEPT ![q] = <<>>]
    /\ UNCHANGED <<now, notifications, certVars, examVars, assignment_submissions,
                   teacherSession, work>>

\* getSession of a fetchSubmissions call resolves: without a session the call
\* ends, else the query is issued
fetchSubmissions(q) ==
    /\ queueFetches[q].session > 0
    /\ queueFetches' = [queueFetches EXCEPT
          ![q].session = @ - 1,
          ![q].select = IF teacherSession = NoSession THEN @ ELSE @ + 1]
    /\ UNCHANGED <<now, notifications, certVars, examVars, assignment_submissions,
                   teacherSession, submissions, grading, selectedSubmission, grade,
                   bulkVars, toasts, work>>

\* the query of a fetchSubmissions call gets its answer: setSubmissions(data),
\* or on an error the list is kept and a toast tells of the failed query. The
\* query was sent under the token of the teacher, to whom the policy opens the
\* rows of every assignment
fetchSubmissionsReturns(q) ==
    /\ queueFetches[q].select > 0
    /\ queueFetches' = [queueFetches EXCEPT ![q].select = @ - 1]
    /\ \E fetchOk \in BOOLEAN :
        IF fetchOk
        THEN /\ submissions' = [submissions EXCEPT
                                   ![q] = SelectSubmitted(assignment_submissions)]
             /\ UNCHANGED toasts
        ELSE /\ toasts' = [toasts EXCEPT ![q] =
                              Append(@, [msg |-> "Failed to load submissions", arg |-> Null])]
             /\ UNCHANGED submissions
    /\ UNCHANGED <<now, notifications, certVars, examVars, assignment_submissions,
                   teacherSession, grading, selectedSubmission, grade, bulkVars, work>>

\* disabled={grading} on the Submit Grade and the bulk Grade buttons
ButtonDisabledNever(q) == FALSE
ButtonDisabled(q) == grading[q]

\* openGradingDialog: a submitted row has no grade yet, so the input starts empty
openGradingDialog(q, sub) ==
    /\ selectedSubmission[q] = Null
    /\ sub \in submissions[q]
    /\ selectedSubmission' = [selectedSubmission EXCEPT ![q] = sub]
    /\ grade' = [grade EXCEPT ![q] = <<>>]
    /\ UNCHANGED <<now, notifications, certVars, examVars, assignment_submissions, teacherSession,
                   submissions, grading, bulkVars, toasts, work, queueFetches>>

\* Cancel, or the dialog is dismissed
closeGradingDialog(q) ==
    /\ selectedSubmission[q] # Null
    /\ selectedSubmission' = [selectedSubmission EXCEPT ![q] = Null]
    /\ UNCHANGED <<now, notifications, certVars, examVars, assignment_submissions, teacherSession,
                   submissions, grading, grade, bulkVars, toasts, work, queueFetches>>

\* onChange of the grade input
setGrade(q, text) ==
    /\ selectedSubmission[q] # Null
    /\ text # grade[q]
    /\ grade' = [grade EXCEPT ![q] = text]
    /\ UNCHANGED <<now, notifications, certVars, examVars, assignment_submissions, teacherSession,
                   submissions, grading, selectedSubmission, bulkVars, toasts, work, queueFetches>>

\* the session getSession resolves with, as session?.user.id
SessionUserId == IF teacherSession = NoSession THEN Undefined ELSE teacherSession

\* Submit Grade is clicked: submitGrade up to its await of getSession, the
\* validation of gradeNum = parseFloat(grade) and setGrading(true)
submitGrade(q) ==
    /\ selectedSubmission[q] # Null
    /\ ~ButtonDisabled(q)
    /\ IF grade[q] = <<>>
       THEN /\ toasts' = [toasts EXCEPT ![q] =
                            <<[msg |-> "Please enter a grade", arg |-> Null]>>]
            /\ UNCHANGED <<grading, work>>
       ELSE \E gradeNum \in {parseFloat(grade[q])} :
            IF GradeOutOfRange(gradeNum, selectedSubmission[q].points)
            THEN /\ toasts' = [toasts EXCEPT ![q] =
                                 <<[msg |-> "Grade must be between 0 and",
                                    arg |-> selectedSubmission[q].points]>>]
                 /\ UNCHANGED <<grading, work>>
            ELSE /\ PendingFetches(q) < MaxFetches
                 /\ grading' = [grading EXCEPT ![q] = TRUE]
                 /\ toasts' = [toasts EXCEPT ![q] = <<>>]
                 /\ \E fb \in Feedbacks :
                     work' = [work EXCEPT ![q] =
                         [IdleWork EXCEPT !.pc = "session", !.sub = selectedSubmission[q],
                          !.gradeNum = gradeNum, !.feedback = fb]]
    /\ UNCHANGED <<now, notifications, certVars, examVars, assignment_submissions, teacherSession,
                   submissions, selectedSubmission, grade, bulkVars, queueFetches>>

\* getSession of submitGrade resolves: the update is issued with the user of
\* that session and the time of new Date(), under the token of the session
gradeSessionReturns(q) ==
    /\ work[q].pc = "session"
    /\ \E t \in ClockReadings :
        /\ now' = t
        /\ work' = [work EXCEPT ![q].pc = "update", ![q].user = SessionUserId,
                                 ![q].auth = teacherSession, ![q].at = t]
    /\ UNCHANGED <<notifications, certVars, examVars, assignment_submissions, teacherSession,
                   submissions, grading, selectedSubmission, grade, bulkVars, toasts,
                   queueFetches>>

\* if (error) { toast.error(..); setGrading(false); return; }: the handler ends
AfterGradeUpdateErrorRetry(w) == w
AfterGradeUpdateError(w) == IdleWork

\* the update of submitGrade returns: the policy was evaluated for the user
\* whose token the request carried; without an error the notification insert
\* is issued
gradeUpdateReturns(q) ==
    /\ work[q].pc = "update"
    /\ \E backendOk \in BOOLEAN :
        IF backendOk
        THEN /\ assignment_submissions' =
                  [id \in SubIds |->
                      IF id = work[q].sub.id
                         /\ MayGrade(work[q].auth, assignment_submissions[id])
                      THEN GradedRow(assignment_submissions[id], work[q])
                      ELSE assignment_submissions[id]]
             /\ work' = [work EXCEPT ![q].pc = "notify", ![q].auth = teacherSession]
             /\ UNCHANGED <<grading, toasts>>
        ELSE /\ toasts' = [toasts EXCEPT ![q] =
                             Append(@, [msg |-> "Failed to submit grade", arg |-> Null])]
             /\ grading' = [grading EXCEPT ![q] = FALSE]
             /\ work' = [work EXCEPT ![q] = AfterGradeUpdateError(@)]
             /\ UNCHANGED assignment_submissions
    /\ UNCHANGED <<now, notifications, certVars, examVars, teacherSession, submissions,
                   selectedSubmission, grade, bulkVars, queueFetches>>

\* the notification insert returns; the dialog is reset and fetchSubmissions()
\* is called without being awaited
gradeNotifyReturns(q) ==
    /\ work[q].pc = "notify"
    /\ \E backendOk \in BOOLEAN :
        LET row == [user_id |-> StudentIdOf(work[q].sub), type |-> "assignment_graded"] IN
        /\ backendOk => Len(notifications) < MaxNotifs
        /\ notifications' =
              IF backendOk /\ NotificationAccepted(work[q].auth, row)
              THEN InsertNotification(notifications, row) ELSE notifications
    /\ toasts' = [toasts EXCEPT ![q] =
          Append(@, [msg |-> "Grade submitted successfully", arg |-> Null])]
    /\ selectedSubmission' = [selectedSubmission EXCEPT ![q] = Null]
    /\ grade' = [grade EXCEPT ![q] = <<>>]
    /\ grading' = [grading EXCEPT ![q] = FALSE]
    /\ work' = [work EXCEPT ![q] = IdleWork]
    /\ queueFetches' = [queueFetches EXCEPT ![q].session = @ + 1]
    /\ UNCHANGED <<now, certVars, examVars, assignment_submissions, teacherSession,
                   submissions, bulkVars>>

\* ------------------------------ bulk grading ----------------------------

RECURSIVE Without(_, _)
Without(seq, x) ==
    IF seq = <<>> THEN <<>>
    ELSE IF Head(seq) = x THEN Tail(seq) ELSE <<Head(seq)>> \o Without(Tail(seq), x)

\* submissions.find((s) => s.id === submissionId)
FindSubmission(subs, id) ==
    IF \E x \in subs : x.id = id THEN CHOOSE x \in subs : x.id = id ELSE Undefined

\* the checks at the top of the loop body: a missing submission is skipped
\* silently, an out-of-range grade with a toast
SkipsMissing(subs, id) == \A x \in subs : x.id # id
SkipsInvalid(subs, id, gradeNum) ==
    /\ ~SkipsMissing(subs, id)
    /\ GradeOutOfRange(gradeNum, FindSubmission(subs, id).points)

\* the loop runs on from queue until it issues an update: what is left to visit
\* from the first submission that passes the checks on
RECURSIVE RestFromValid(_, _, _)
RestFromValid(queue, subs, gradeNum) ==
    IF queue = <<>> THEN <<>>
    ELSE IF SkipsMissing(subs, Head(queue)) \/ SkipsInvalid(subs, Head(queue), gradeNum)
         THEN RestFromValid(Tail(queue), subs, gradeNum)
         ELSE queue

\* the submissions skipped on the way with "Invalid grade for ..."
RECURSIVE SkippedInvalid(_, _, _)
SkippedInvalid(queue, subs, gradeNum) ==
    IF queue = <<>> THEN <<>>
    ELSE IF SkipsMissing(subs, Head(queue))
         THEN SkippedInvalid(Tail(queue), subs, gradeNum)
         ELSE IF SkipsInvalid(subs, Head(queue), gradeNum)
              THEN <<Head(queue)>> \o SkippedInvalid(Tail(queue), subs, gradeNum)
              ELSE <<>>

InvalidToasts(ids) ==
    [k \in 1..Len(ids) |-> [msg |-> "Invalid grade for", arg |-> ids[k]]]

\* the loop of handleBulkGrade from the submissions in queue on, for the batch
\* w: up to the next update it issues, with the time of new Date() and under
\* the token of the session the browser holds then, or through
\* the end of the handler, where fetchSubmissions() is called without being
\* awaited; the loop looks submissions up in the list the handler was created
\* with
BulkContinue(q, w, queue, shown) ==
    LET rest == RestFromValid(queue, w.subs, w.gradeNum)
        skipped == SkippedInvalid(queue, w.subs, w.gradeNum)
        said == shown \o InvalidToasts(skipped)
    IN IF rest # <<>>
       THEN /\ \E t \in ClockReadings :
                /\ now' = t
                /\ work' = [work EXCEPT ![q] =
                              [w EXCEPT !.pc = "bulk_update",
                                        !.sub = FindSubmission(w.subs, Head(rest)),
                                        !.auth = teacherSession,
                                        !.at = t,
                                        !.queue = Tail(rest),
                                        !.invalid = @ \cup {skipped[k] : k \in 1..Len(skipped)}]]
            /\ toasts' = [toasts EXCEPT ![q] = said]
            /\ UNCHANGED <<grading, bulkVars, queueFetches>>
       ELSE /\ toasts' = [toasts EXCEPT ![q] =
                  Append(said, [msg |-> "Graded", arg |-> w.size])]
            /\ queueFetches' = [queueFetches EXCEPT ![q].session = @ + 1]
            /\ selectedSubmissions' = [selectedSubmissions EXCEPT ![q] = <<>>]
            /\ bulkGrade' = [bulkGrade EXCEPT ![q] = <<>>]
            /\ grading' = [grading EXCEPT ![q] = FALSE]
            /\ work' = [work EXCEPT ![q] = IdleWork]
            /\ UNCHANGED now

\* the checkbox of a listed submission
toggleSubmissionSelection(q, id) ==
    /\ \E x \in submissions[q] : x.id = id
    /\ selectedSubmissions' = [selectedSubmissions EXCEPT ![q] =
          IF \E k \in 1..Len(@) : @[k] = id THEN Without(@, id) ELSE Append(@, id)]
    /\ UNCHANGED <<now, notifications, certVars, examVars, assignment_submissions, teacherSession,
                   submissions, grading, selectedSubmission, grade, bulkGrade, toasts, work,
                   queueFetches>>

\* Clear Selection
clearSelection(q) ==
    /\ selectedSubmissions[q] # <<>>
    /\ selectedSubmissions' = [selectedSubmissions EXCEPT ![q] = <<>>]
    /\ UNCHANGED <<now, notifications, certVars, examVars, assignment_submissions, teacherSession,
                   submissions, grading, selectedSubmission, grade, bulkGrade, toasts, work,
                   queueFetches>>

\* onChange of the bulk grade input, shown while something is selected
setBulkGrade(q, text) ==
    /\ selectedSubmissions[q] # <<>>
    /\ text # bulkGrade[q]
    /\ bulkGrade' = [bulkGrade EXCEPT ![q] = text]
    /\ UNCHANGED <<now, notifications, certVars, examVars, assignment_submissions, teacherSession,
                   submissions, grading, selectedSubmission, grade, selectedSubmissions,
                   toasts, work, queueFetches>>

\* Grade N Submissions is clicked: handleBulkGrade up to its await of
\* getSession, the check of the input and setGrading(true); the handler keeps
\* the selection, the grade text and the list it was created with
handleBulkGrade(q) ==
    /\ selectedSubmissions[q] # <<>>
    /\ ~ButtonDisabled(q)
    /\ IF bulkGrade[q] = <<>>
       THEN /\ toasts' = [toasts EXCEPT ![q] =
                            <<[msg |-> "Please enter a grade", arg |-> Null]>>]
            /\ UNCHANGED <<grading, work>>
       ELSE /\ PendingFetches(q) < MaxFetches
            /\ grading' = [grading EXCEPT ![q] = TRUE]
            /\ toasts' = [toasts EXCEPT ![q] = <<>>]
            /\ \E fb \in Feedbacks :
                work' = [work EXCEPT ![q] =
                    [IdleWork EXCEPT !.pc = "bulk_session",
                                     !.gradeNum = parseFloat(bulkGrade[q]), !.feedback = fb,
                                     !.subs = submissions[q],
                                     !.queue = selectedSubmissions[q],
                                     !.size = Len(selectedSubmissions[q])]]
    /\ UNCHANGED <<now, notifications, certVars, examVars, assignment_submissions, teacherSession,
                   submissions, selectedSubmission, grade, bulkVars, queueFetches>>

\* getSession of handleBulkGrade resolves: the loop starts with the user of
\* that session
bulkSessionReturns(q) ==
    /\ work[q].pc = "bulk_session"
    /\ BulkContinue(q, [work[q] EXCEPT !.user = SessionUserId], work[q].queue, toasts[q])
    /\ UNCHANGED <<notifications, certVars, examVars, assignment_submissions, teacherSession,
                   submissions, selectedSubmission, grade>>

\* the table after an update of the batch w returned: one more graded row when
\* the update reached it, and nothing undone when it did not
BulkUpdatedOrRolledBack(rows, w, reached) ==
    IF reached
    THEN [rows EXCEPT ![w.sub.id] = GradedRow(rows[w.sub.id], w)]
    ELSE [id \in SubIds |-> IF id \in w.changed THEN SubmittedRow(id) ELSE rows[id]]
BulkUpdated(rows, w, reached) ==
    IF reached
    THEN [rows EXCEPT ![w.sub.id] = GradedRow(rows[w.sub.id], w)]
    ELSE rows

\* an update of handleBulkGrade returns: the policy was evaluated for the user
\* whose token the request carried; its error is not looked at, and the
\* notification insert is issued
bulkUpdateReturns(q) ==
    /\ work[q].pc = "bulk_update"
    /\ \E backendOk \in BOOLEAN :
        LET id == work[q].sub.id
            reached == backendOk /\ MayGrade(work[q].auth, assignment_submissions[id])
        IN /\ assignment_submissions' = BulkUpdated(assignment_submissions, work[q], reached)
           /\ work' = [work EXCEPT ![q].pc = "bulk_notify",
                          ![q].auth = teacherSession,
                          ![q].changed = IF reached THEN @ \cup {id} ELSE @,
                          ![q].failed = IF backendOk THEN @ ELSE @ \cup {id}]
    /\ UNCHANGED <<now, notifications, certVars, examVars, teacherSession, submissions, grading,
                   selectedSubmission, grade, bulkVars, toasts, queueFetches>>

\* a notification insert of handleBulkGrade returns; the loop goes on
bulkNotifyReturns(q) ==
    /\ work[q].pc = "bulk_notify"
    /\ \E backendOk \in BOOLEAN :
        LET row == [user_id |-> StudentIdOf(work[q].sub), type |-> "assignment_graded"]
            stored == backendOk /\ NotificationAccepted(work[q].auth, row)
        IN /\ backendOk => Len(notifications) < MaxNotifs
           /\ notifications' = IF stored THEN InsertNotification(notifications, row)
                               ELSE notifications
           /\ BulkContinue(q, [work[q] EXCEPT !.inserted = IF stored THEN @ + 1 ELSE @],
                           work[q].queue, toasts[q])
    /\ UNCHANGED <<certVars, examVars, assignment_submissions, teacherSession,
                   submissions, selectedSubmission, grade>>

\* the session of the grading browser ends
teacherSignsOut ==
    /\ teacherSession # NoSession
    /\ teacherSession' = NoSession
    /\ UNCHANGED <<now, notifications, certVars, examVars, assignment_submissions, submissions,
                   grading, selectedSubmission, grade, bulkVars, toasts, work, queueFetches>>

Next ==
    \/ \E c \in Courses : handleEnroll(c)
    \/ \E c \in Courses : enrollInsertReturns(c)
    \/ \E c \in Courses : enrollNotifyReturns(c)
    \/ \E c \in Courses : handleDrop(c)
    \/ \E c \in Courses : CompletionTrigger(c)
    \/ \E t \in Tabs : LoadProgressPage(t)
    \/ \E t \in Tabs : fetchProgressReturns(t)
    \/ \E t \in Tabs, i \in OneInv : ClickGenerate(t, i)
    \/ \E i \in OneInv : StartGeneration(i)
    \/ \E i \in OneInv : UploadCertificate(i)
    \/ \E i \in OneInv : UpdateEnrollment(i)
    \/ \E i \in OneInv : FinishGeneration(i)

\* enrollment, completion and one certificate generation at a time
Spec == Init /\ [][Next]_vars

\* the Progress page of a student who has completed both courses, with
\* generations running side by side
NextCert ==
    \/ \E t \in Tabs : LoadProgressPage(t)
    \/ \E t \in Tabs : fetchProgressReturns(t)
    \/ \E t \in Tabs, i \in InvIds : ClickGenerate(t, i)
    \/ \E i \in InvIds : StartGeneration(i)
    \/ \E i \in InvIds : UploadCertificate(i)
    \/ \E i \in InvIds : UpdateEnrollment(i)
    \/ \E i \in InvIds : FinishGeneration(i)

SpecCert == InitCert /\ [][NextCert]_vars

\* enrollment, completion and content progress without the Progress page
NextEnroll ==
    \/ \E c \in Courses : handleEnroll(c)
    \/ \E c \in Courses : enrollInsertReturns(c)
    \/ \E c \in Courses : enrollNotifyReturns(c)
    \/ \E c \in Courses : handleDrop(c)
    \/ \E c \in Courses : CompletionTrigger(c)
    \/ \E k \in Contents, done \in BOOLEAN : RecordContentProgress(k, done)

SpecEnroll == Init /\ [][NextEnroll]_vars

\* ------------------------------ PastExams page ---------------------------

\* `past-exams/${Date.now()}.${fileExt}`, fileExt being file.name.split('.').pop()
ExamFileName(t, file) == <<"past-exams", t, file[Len(file)]>>

\* the object at path now holds file
StoreFile(objects, path, file) ==
    {o \in objects : o.path # path} \cup {[path |-> path, file |-> file]}

\* gen_random_uuid() of a new content row
NewContentId(rows) == CHOOSE id \in ExamRowIds : \A x \in rows : x.id # id

\* title ILIKE '%past exam%': "past exam" occurs in the title, whatever the case
\* (lower(ch) for the letters A to Z; other code units are left as they are)
IsPastExamTitle(title) ==
    LET word == <<112, 97, 115, 116, 32, 101, 120, 97, 109>>
        t == [i \in 1..Len(title) |->
                 IF title[i] \in 65..90 THEN title[i] + 32 ELSE title[i]]
    IN \E i \in 1..(Len(t) - Len(word) + 1) : SubSeq(t, i, i + Len(word) - 1) = word

\* .eq("content_type", "file").ilike("title", "%past exam%")
SelectPastExams(rows) ==
    {x \in rows : x.content_type = "file" /\ IsPastExamTitle(x.title)}

\* `Past Exam - ${formData.title}`
PastExamTitle(title) == <<80, 97, 115, 116, 32, 69, 120, 97, 109, 32, 45, 32>> \o title

\* what fetchPastExams leaves in pastExams
FetchedExams(e, rows, fetchOk) ==
    IF fetchOk THEN {x.id : x \in SelectPastExams(rows)} ELSE pastExams[e]

\* the page is opened or reloaded: fresh component state, and the effect calls
\* checkAuth and fetchPastExams; answers to the calls of the page it replaces
\* are dropped
LoadPastExams(e) ==
    /\ exam[e].pc = "idle"
    /\ selectedFile' = [selectedFile EXCEPT ![e] = Null]
    /\ uploading' = [uploading EXCEPT ![e] = FALSE]
    /\ pastExams' = [pastExams EXCEPT ![e] = {}]
    /\ examFetches' = [examFetches EXCEPT ![e] = 1]
    /\ loading' = [loading EXCEPT ![e] = TRUE]
    /\ isTeacher' = [isTeacher EXCEPT ![e] = FALSE]
    /\ authCheck' = [authCheck EXCEPT ![e] = [pc |-> "session", user |-> Undefined]]
    /\ UNCHANGED <<now, notifications, certVars, gradeVars, content, stored_file, exam>>

\* getSession of checkAuth resolves: without a session it returns, else the
\* role of the user is asked for
checkAuth(e) ==
    /\ authCheck[e].pc = "session"
    /\ authCheck' = [authCheck EXCEPT ![e] =
          IF teacherSession = NoSession THEN [pc |-> "none", user |-> Undefined]
          ELSE [pc |-> "role", user |-> teacherSession]]
    /\ UNCHANGED <<now, notifications, certVars, gradeVars, content, stored_file,
                   selectedFile, uploading, pastExams, exam, examFetches, loading, isTeacher>>

\* the role query of checkAuth returns: setIsTeacher(roleData?.role === "teacher"
\* || roleData?.role === "admin"); on an error roleData is null
checkAuthReturns(e) ==
    /\ authCheck[e].pc = "role"
    /\ \E backendOk \in BOOLEAN :
        isTeacher' = [isTeacher EXCEPT ![e] =
                         /\ backendOk
                         /\ \/ has_role(authCheck[e].user, "teacher")
                            \/ has_role(authCheck[e].user, "admin")]
    /\ authCheck' = [authCheck EXCEPT ![e] = [pc |-> "none", user |-> Undefined]]
    /\ UNCHANGED <<now, notifications, certVars, gradeVars, content, stored_file,
                   selectedFile, uploading, pastExams, exam, examFetches, loading>>

\* a fetchPastExams call gets its answer; setLoading(false) whatever it is
fetchPastExamsReturns(e) ==
    /\ examFetches[e] > 0
    /\ examFetches' = [examFetches EXCEPT ![e] = @ - 1]
    /\ \E fetchOk \in BOOLEAN :
        pastExams' = [pastExams EXCEPT ![e] = FetchedExams(e, content, fetchOk)]
    /\ loading' = [loading EXCEPT ![e] = FALSE]
    /\ UNCHANGED <<now, notifications, certVars, gradeVars, content, stored_file,
                   selectedFile, uploading, exam, isTeacher, authCheck>>

\* the upload form is on the page: {isTeacher && (...)} below the skeleton
\* that is returned while loading
FormRendered(e) == ~loading[e] /\ isTeacher[e]

\* onChange of the file input: e.target.files?.[0] || null
selectFile(e, file) ==
    /\ FormRendered(e)
    /\ selectedFile' = [selectedFile EXCEPT ![e] = file]
    /\ UNCHANGED <<now, notifications, certVars, gradeVars, content, stored_file,
                   uploading, pastExams, exam, examFetches, loading, isTeacher, authCheck>>

\* the form is submitted: handleSubmit up to its await of getSession; with no
\* file chosen it only raises a toast
handleSubmit(e) ==
    /\ FormRendered(e)
    /\ ~uploading[e]
    /\ exam[e].pc = "idle"
    /\ Cardinality({x \in content : x.id \in ExamRowIds})
          + Cardinality({d \in ExamTabs : exam[d].pc # "idle"}) < Cardinality(ExamRowIds)
    /\ IF selectedFile[e] = Null
       THEN UNCHANGED <<uploading, exam>>
       ELSE /\ examFetches[e] < MaxFetches
            /\ uploading' = [uploading EXCEPT ![e] = TRUE]
            /\ \E c \in ExamSubjects, title \in ExamTitles :
                exam' = [exam EXCEPT ![e] =
                    [IdleExam EXCEPT !.pc = "session", !.file = selectedFile[e],
                                     !.title = title, !.subject = c]]
    /\ UNCHANGED <<now, notifications, certVars, gradeVars, content, stored_file,
                   selectedFile, pastExams, examFetches, loading, isTeacher, authCheck>>

\* getSession of handleSubmit resolves: without a session the handler gives
\* up, else it calls handleFileUpload
examSessionReturns(e) ==
    /\ exam[e].pc = "session"
    /\ IF teacherSession = NoSession
       THEN /\ uploading' = [uploading EXCEPT ![e] = FALSE]
            /\ exam' = [exam EXCEPT ![e] = IdleExam]
       ELSE /\ exam' = [exam EXCEPT ![e].pc = "upload_session", ![e].user = teacherSession]
            /\ UNCHANGED uploading
    /\ UNCHANGED <<now, notifications, certVars, gradeVars, content, stored_file,
                   selectedFile, pastExams, examFetches, loading, isTeacher, authCheck>>

\* getSession of handleFileUpload resolves: the file is named and the upload
\* issued; without a session it returns null and handleSubmit gives up
handleFileUpload(e) ==
    /\ exam[e].pc = "upload_session"
    /\ IF teacherSession = NoSession
       THEN /\ uploading' = [uploading EXCEPT ![e] = FALSE]
            /\ exam' = [exam EXCEPT ![e] = IdleExam]
            /\ UNCHANGED now
       ELSE \E t \in ClockReadings :
            /\ now' = t
            /\ exam' = [exam EXCEPT ![e].pc = "upload",
                                    ![e].fileName = ExamFileName(t, exam[e].file)]
            /\ UNCHANGED uploading
    /\ UNCHANGED <<notifications, certVars, gradeVars, content, stored_file,
                   selectedFile, pastExams, examFetches, loading, isTeacher, authCheck>>

\* the upload returns: on an error handleFileUpload returns null, else the path
examUploadReturns(e) ==
    /\ exam[e].pc = "upload"
    /\ \E backendOk \in BOOLEAN :
        IF backendOk /\ UploadAccepted(storage, exam[e].fileName)
        THEN /\ storage' = storage \cup {exam[e].fileName}
             /\ stored_file' = StoreFile(stored_file, exam[e].fileName, exam[e].file)
             /\ exam' = [exam EXCEPT ![e].pc = "insert"]
             /\ UNCHANGED uploading
        ELSE /\ uploading' = [uploading EXCEPT ![e] = FALSE]
             /\ exam' = [exam EXCEPT ![e] = IdleExam]
             /\ UNCHANGED <<storage, stored_file>>
    /\ UNCHANGED <<now, notifications, student_courses, session, completedCourses,
                   generatingCert, inv, content_progress, enrollVars, progressFetches,
                   gradeVars, content, selectedFile, pastExams, examFetches, loading,
                   isTeacher, authCheck>>

\* the content insert returns: on success the form is reset and
\* fetchPastExams() is called without being awaited
examInsertReturns(e) ==
    /\ exam[e].pc = "insert"
    /\ \E backendOk \in BOOLEAN :
        IF backendOk
        THEN /\ content' = content \cup
                    {ContentRow(NewContentId(content), PastExamTitle(exam[e].title), "file",
                                exam[e].subject, exam[e].user, exam[e].fileName)}
             /\ selectedFile' = [selectedFile EXCEPT ![e] = Null]
             /\ examFetches' = [examFetches EXCEPT ![e] = @ + 1]
        ELSE UNCHANGED <<content, selectedFile, examFetches>>
    /\ uploading' = [uploading EXCEPT ![e] = FALSE]
    /\ exam' = [exam EXCEPT ![e] = IdleExam]
    /\ UNCHANGED <<now, notifications, certVars, gradeVars, stored_file, pastExams,
                   loading, isTeacher, authCheck>>

NextExams ==
    \/ \E e \in ExamTabs : LoadPastExams(e)
    \/ \E e \in ExamTabs : checkAuth(e)
    \/ \E e \in ExamTabs : checkAuthReturns(e)
    \/ \E e \in ExamTabs : fetchPastExamsReturns(e)
    \/ \E e \in ExamTabs, file \in Files : selectFile(e, file)
    \/ \E e \in ExamTabs : handleSubmit(e)
    \/ \E e \in ExamTabs : examSessionReturns(e)
    \/ \E e \in ExamTabs : handleFileUpload(e)
    \/ \E e \in ExamTabs : examUploadReturns(e)
    \/ \E e \in ExamTabs : examInsertReturns(e)
    \/ teacherSignsOut

SpecExams == InitExams /\ [][NextExams]_vars

\* lessons are completed and the enrollment's progress is aggregated
NextProgress ==
    \/ \E k \in {x.id : x \in content}, done \in BOOLEAN : RecordContentProgress(k, done)
    \/ \E c \in Courses : AggregateProgress(c)

SpecProgress == InitProgress /\ [][NextProgress]_vars

NextGrade ==
    \/ \E q \in GradeTabs : LoadGradingQueue(q)
    \/ \E q \in GradeTabs : fetchSubmissions(q)
    \/ \E q \in GradeTabs : fetchSubmissionsReturns(q)
    \/ \E q \in GradeTabs : \E sub \in submissions[q] : openGradingDialog(q, sub)
    \/ \E q \in GradeTabs : closeGradingDialog(q)
    \/ \E q \in GradeTabs, text \in GradeTexts : setGrade(q, text)
    \/ \E q \in GradeTabs : submitGrade(q)
    \/ \E q \in GradeTabs : gradeSessionReturns(q)
    \/ \E q \in GradeTabs : gradeUpdateReturns(q)
    \/ \E q \in GradeTabs : gradeNotifyReturns(q)

SpecGrade == Init /\ [][NextGrade]_vars

NextBulk ==
    \/ \E q \in GradeTabs : LoadGradingQueue(q)
    \/ \E q \in GradeTabs : fetchSubmissions(q)
    \/ \E q \in GradeTabs : fetchSubmissionsReturns(q)
    \/ \E q \in GradeTabs, id \in SubIds : toggleSubmissionSelection(q, id)
    \/ \E q \in GradeTabs : clearSelection(q)
    \/ \E q \in GradeTabs, text \in BulkGradeTexts : setBulkGrade(q, text)
    \/ \E q \in GradeTabs : handleBulkGrade(q)
    \/ \E q \in GradeTabs : bulkSessionReturns(q)
    \/ \E q \in GradeTabs : bulkUpdateReturns(q)
    \/ \E q \in GradeTabs : bulkNotifyReturns(q)
    \/ teacherSignsOut

SpecBulk == Init /\ [][NextBulk]_vars

\* single and bulk grading together, in one tab
NextMix ==
    \/ \E q \in GradeTabs : LoadGradingQueue(q)
    \/ \E q \in GradeTabs : fetchSubmissions(q)
    \/ \E q \in GradeTabs : fetchSubmissionsReturns(q)
    \/ \E q \in GradeTabs : \E sub \in submissions[q] : openGradingDialog(q, sub)
    \/ \E q \in GradeTabs, text \in MixGradeTexts : setGrade(q, text)
    \/ \E q \in GradeTabs : submitGrade(q)
    \/ \E q \in GradeTabs : gradeSessionReturns(q)
    \/ \E q \in GradeTabs : gradeUpdateReturns(q)
    \/ \E q \in GradeTabs : gradeNotifyReturns(q)
    \/ \E q \in GradeTabs, id \in SubIds : toggleSubmissionSelection(q, id)
    \/ \E q \in GradeTabs, text \in MixBulkGradeTexts : setBulkGrade(q, text)
    \/ \E q \in GradeTabs : handleBulkGrade(q)
    \/ \E q \in GradeTabs : bulkSessionReturns(q)
    \/ \E q \in GradeTabs : bulkUpdateReturns(q)
    \/ \E q \in GradeTabs : bulkNotifyReturns(q)

SpecMix == Init /\ [][NextMix]_vars

\* the submission that is selected for the batches where two tabs grade, where
\* the session ends and where students enroll meanwhile
BatchIds == {"b1"}

\* two sessions: the dialog is used in one tab while batches run in the other,
\* on the same submission
NextTabs ==
    \/ \E q \in AllGradeTabs : LoadGradingQueue(q)
    \/ \E q \in AllGradeTabs : fetchSubmissions(q)
    \/ \E q \in AllGradeTabs : fetchSubmissionsReturns(q)
    \/ \E q \in GradeTabs : \E sub \in submissions[q] : openGradingDialog(q, sub)
    \/ \E q \in GradeTabs, text \in MixGradeTexts : setGrade(q, text)
    \/ \E q \in GradeTabs : submitGrade(q)
    \/ \E q \in GradeTabs : gradeSessionReturns(q)
    \/ \E q \in GradeTabs : gradeUpdateReturns(q)
    \/ \E q \in GradeTabs : gradeNotifyReturns(q)
    \/ \E q \in AllGradeTabs \ GradeTabs, id \in BatchIds : toggleSubmissionSelection(q, id)
    \/ \E q \in AllGradeTabs \ GradeTabs, text \in MixGradeTexts : setBulkGrade(q, text)
    \/ \E q \in AllGradeTabs \ GradeTabs : handleBulkGrade(q)
    \/ \E q \in AllGradeTabs \ GradeTabs : bulkSessionReturns(q)
    \/ \E q \in AllGradeTabs \ GradeTabs : bulkUpdateReturns(q)
    \/ \E q \in AllGradeTabs \ GradeTabs : bulkNotifyReturns(q)

SpecTabs == Init /\ [][NextTabs]_vars

\* single and bulk grading while the session of the browser ends
NextSession ==
    \/ \E q \in GradeTabs : LoadGradingQueue(q)
    \/ \E q \in GradeTabs : fetchSubmissions(q)
    \/ \E q \in GradeTabs : fetchSubmissionsReturns(q)
    \/ \E q \in GradeTabs : \E sub \in submissions[q] : openGradingDialog(q, sub)
    \/ \E q \in GradeTabs, text \in MixGradeTexts : setGrade(q, text)
    \/ \E q \in GradeTabs : submitGrade(q)
    \/ \E q \in GradeTabs : gradeSessionReturns(q)
    \/ \E q \in GradeTabs : gradeUpdateReturns(q)
    \/ \E q \in GradeTabs : gradeNotifyReturns(q)
    \/ \E q \in GradeTabs, id \in BatchIds : toggleSubmissionSelection(q, id)
    \/ \E q \in GradeTabs, text \in MixBulkGradeTexts : setBulkGrade(q, text)
    \/ \E q \in GradeTabs : handleBulkGrade(q)
    \/ \E q \in GradeTabs : bulkSessionReturns(q)
    \/ \E q \in GradeTabs : bulkUpdateReturns(q)
    \/ \E q \in GradeTabs : bulkNotifyReturns(q)
    \/ teacherSignsOut

SpecSession == Init /\ [][NextSession]_vars

\* enrollment and grading of one submission side by side: every workflow that
\* inserts a notification
NextNotify ==
    \/ \E c \in Courses : handleEnroll(c)
    \/ \E c \in Courses : enrollInsertReturns(c)
    \/ \E c \in Courses : enrollNotifyReturns(c)
    \/ \E q \in GradeTabs : LoadGradingQueue(q)
    \/ \E q \in GradeTabs : fetchSubmissions(q)
    \/ \E q \in GradeTabs : fetchSubmissionsReturns(q)
    \/ \E q \in GradeTabs : \E sub \in {x \in submissions[q] : x.id \in BatchIds} :
                                openGradingDialog(q, sub)
    \/ \E q \in GradeTabs, text \in MixGradeTexts : setGrade(q, text)
    \/ \E q \in GradeTabs : submitGrade(q)
    \/ \E q \in GradeTabs : gradeSessionReturns(q)
    \/ \E q \in GradeTabs : gradeUpdateReturns(q)
    \/ \E q \in GradeTabs : gradeNotifyReturns(q)
    \/ \E q \in GradeTabs, id \in BatchIds : toggleSubmissionSelection(q, id)
    \/ \E q \in GradeTabs, text \in MixGradeTexts : setBulkGrade(q, text)
    \/ \E q \in GradeTabs : handleBulkGrade(q)
    \/ \E q \in GradeTabs : bulkSessionReturns(q)
    \/ \E q \in GradeTabs : bulkUpdateReturns(q)
    \/ \E q \in GradeTabs : bulkNotifyReturns(q)

SpecNotify == Init /\ [][NextNotify]_vars

\* ------------------------------ properties ------------------------------

HasStep(r, step) == \E k \in 1..Len(r.steps) : r.steps[k] = step
PathOf(r) == CertPath(r.studentId, r.fileName)
Targets(r, row) == row.student_id = r.studentId /\ row.subject_id = r.courseId

UploadErrorStep(i) == inv[i].pc = "upload" /\ HasStep(inv'[i], "upload_error")
UploadOkStep(i) == inv[i].pc = "upload" /\ HasStep(inv'[i], "upload_ok")
UpdateErrorStep(i) == inv[i].pc = "update" /\ HasStep(inv'[i], "update_error")
UpdateOkStep(i) == inv[i].pc = "update" /\ HasStep(inv'[i], "update_ok")

\* C1: when the upload returns an error, generateCertificate issues no update
\* (student_courses is unchanged), returns null and still saves the PDF locally.
C1_UploadErrorNoUpdate ==
    [][\A i \in InvIds : UploadErrorStep(i) =>
          /\ student_courses' = student_courses
          /\ inv'[i].pc = "finish"
          /\ inv'[i].result = Null
          /\ inv'[i].saved
          /\ ~HasStep(inv'[i], "update_ok") /\ ~HasStep(inv'[i], "update_error")]_vars

C1_Witness ==
    \E i \in InvIds : inv[i].pc = "finish" /\ HasStep(inv[i], "upload_error")

\* C2: within one invocation the update of certificate_url is issued only after
\* the upload of that invocation succeeded and its public URL was obtained.
C2_UploadBeforeUpdate ==
    \A i \in InvIds :
        (inv[i].pc = "update" \/ HasStep(inv[i], "update_ok") \/ HasStep(inv[i], "update_error"))
        => /\ Len(inv[i].steps) >= 2
           /\ inv[i].steps[1] = "upload_ok"
           /\ inv[i].steps[2] = "public_url"
           /\ PathOf(inv[i]) \in storage
           /\ inv[i].url = PublicUrl(PathOf(inv[i]))

C2_Witness ==
    \E i \in InvIds : inv[i].pc = "finish" /\ HasStep(inv[i], "update_ok")

\* C3: every enrollment's certificate_url is null or the public URL of an
\* object that was uploaded to storage.
C3_UrlOfUploadedObject ==
    \A r \in student_courses :
        r.certificate_url = Null \/ \E p \in storage : r.certificate_url = PublicUrl(p)

C3_Witness ==
    /\ \E r \in student_courses : r.certificate_url # Null
    /\ \E r \in student_courses : r.student_id = "s1" /\ r.certificate_url = Null

\* C4: a generation that succeeds on an enrollment already holding the URL of an
\* earlier generation leaves two distinct objects in storage and the
\* enrollment's certificate_url equal to the URL of the second.
C4_RegenerationKeepsBoth ==
    \A i \in InvIds :
        (inv[i].pc = "finish" /\ inv[i].result # Null) =>
            \A u \in inv[i].replaced :
                /\ u # inv[i].result
                /\ \E p1 \in storage, p2 \in storage :
                      p1 # p2 /\ PublicUrl(p1) = u /\ PublicUrl(p2) = inv[i].result
                /\ \A row \in student_courses :
                      Targets(inv[i], row) => row.certificate_url = inv[i].result

C4_Witness ==
    \E i \in InvIds :
        inv[i].pc = "finish" /\ inv[i].result # Null /\ inv[i].replaced # {}

\* C5: interleaved invocations for the same (student, course) never wait for
\* each other, and the update applied last decides certificate_url.
C5_LastWriteWins ==
    /\ \A i \in InvIds :
          (inv[i].pc = "finish" /\ HasStep(inv[i], "update_ok")) =>
              \A row \in student_courses :
                  Targets(inv[i], row) => row.certificate_url = inv[i].url
    /\ Quiescent =>
          \A i \in InvIds :
              /\ inv[i].pc = "start" => ENABLED StartGeneration(i)
              /\ inv[i].pc = "upload" => ENABLED UploadCertificate(i)
              /\ inv[i].pc = "update" => ENABLED UpdateEnrollment(i)

C5_Witness ==
    \E i \in InvIds, j \in InvIds :
        /\ i # j
        /\ inv[i].courseId = inv[j].courseId /\ inv[i].studentId = inv[j].studentId
        /\ inv[i].pc = "finish" /\ HasStep(inv[i], "update_ok")
        /\ inv[j].pc = "update"
        /\ \E row \in student_courses : Targets(inv[i], row)

\* C6: when the update fails after a successful upload, the uploaded object
\* stays in storage, student_courses keeps its values and the call returns null.
C6_UpdateErrorOrphansObject ==
    [][\A i \in InvIds : UpdateErrorStep(i) =>
          /\ storage' = storage
          /\ PathOf(inv[i]) \in storage'
          /\ student_courses' = student_courses
          /\ inv'[i].pc = "finish"
          /\ inv'[i].result = Null]_vars

C6_Witness ==
    \E i \in InvIds :
        /\ inv[i].pc = "finish" /\ HasStep(inv[i], "update_error")
        /\ \E row \in student_courses : Targets(inv[i], row) /\ row.certificate_url # Null

\* C7: every upload that succeeds creates an object at a path under
\* certificates/<studentId>/ that held no object before, and its URL differs
\* from the URL of every object stored earlier.
C7_FreshObjectEachTime ==
    [][\A i \in InvIds : UploadOkStep(i) =>
          /\ PathOf(inv[i]) \notin storage
          /\ storage' = storage \cup {PathOf(inv[i])}
          /\ SubSeq(PathOf(inv[i]), 1, 2) = <<"certificates", inv[i].studentId>>
          /\ \A p \in storage : PublicUrl(p) # inv'[i].url]_vars

C7_Witness ==
    \E i \in InvIds :
        /\ inv[i].pc = "update"
        /\ \E p \in storage : p # PathOf(inv[i])

\* C8: the certificate_url update changes only rows of the invocation's
\* (studentId, courseId), and of those rows only the column certificate_url.
C8_UpdateFrame ==
    [][\A i \in InvIds : UpdateOkStep(i) =>
          /\ Cardinality(student_courses') = Cardinality(student_courses)
          /\ \A row \in student_courses :
                IF Targets(inv[i], row)
                THEN [row EXCEPT !.certificate_url = inv[i].url] \in student_courses'
                ELSE row \in student_courses']_vars

C8_Witness ==
    \E i \in InvIds :
        /\ inv[i].pc = "finish" /\ HasStep(inv[i], "update_ok")
        /\ \E row \in student_courses : Targets(inv[i], row) /\ row.completed
        /\ \E row \in student_courses :
              row.student_id = inv[i].studentId /\ row.subject_id # inv[i].courseId
        /\ \E row \in student_courses : row.student_id # inv[i].studentId

\* C9: certificate_url is written only onto an enrollment whose completed
\* column is true at the time of the write.
C9_WrittenOnlyWhenCompleted ==
    \A i \in InvIds :
        (inv[i].pc = "finish" /\ HasStep(inv[i], "update_ok")) =>
            \A row \in student_courses : Targets(inv[i], row) => row.completed

\* the number each text of the grade input is read as, in hundredths: "-1",
\* "0", "1", "2", "1.5", "1e1", and "-1e-324", which is read as -0
Hundredths(text) ==
    CASE text = <<45, 49>> -> 0 - 100
      [] text = <<48>> -> 0
      [] text = <<49>> -> 100
      [] text = <<50>> -> 200
      [] text = <<49, 46, 53>> -> 150
      [] text = <<49, 101, 49>> -> 1000
      [] text = <<45, 49, 101, 45, 51, 50, 52>> -> 0
MustReject(text, points) ==
    text = <<>> \/ Hundredths(text) < 0 \/ Hundredths(text) > 100 * points
InHundredths(x) == x.m * Pow10(2 - x.e)
PointsText(points) == IF points = 1 THEN <<49>> ELSE <<50>>
HasToast(q, msg, arg) ==
    \E k \in 1..Len(toasts[q]) : toasts[q][k] = [msg |-> msg, arg |-> arg]

\* C10: submitGrade with an empty grade, a grade below 0 or a grade above the
\* assignment's points starts no request, so no row and no notification
\* changes; with a grade of 0 or of exactly the points it goes on to the update,
\* and an update that reaches the row writes that grade.
C10_GradeValidation ==
    /\ [](\A q \in GradeTabs :
            (selectedSubmission[q] # Null /\ ~grading[q]
                /\ PendingFetches(q) < MaxFetches
                /\ grade[q] \in {<<48>>, PointsText(selectedSubmission[q].points)}) =>
                   ENABLED (submitGrade(q) /\ work'[q].pc = "session"
                               /\ InHundredths(work'[q].gradeNum) = Hundredths(grade[q])))
    /\ [][\A q \in GradeTabs :
          /\ (work[q].pc = "idle" /\ work'[q].pc # "idle") =>
                /\ selectedSubmission[q] # Null
                /\ ~MustReject(grade[q], PointsOf(AssignmentOf(selectedSubmission[q].id)))
                /\ InHundredths(work'[q].gradeNum) = Hundredths(grade[q])
                /\ work'[q].sub = selectedSubmission[q]
          /\ (work[q].pc = "idle" /\ work'[q].pc = "idle") =>
                /\ assignment_submissions' = assignment_submissions
                /\ notifications' = notifications
          /\ (work[q].pc = "session" /\ work'[q].pc # "session") =>
                /\ work'[q].pc = "update"
                /\ work'[q].gradeNum = work[q].gradeNum /\ work'[q].sub = work[q].sub
                /\ assignment_submissions' = assignment_submissions
          /\ (work[q].pc = "update" /\ work'[q].pc = "notify"
                  /\ MayGrade(work[q].auth, assignment_submissions[work[q].sub.id])) =>
                LET row == assignment_submissions'[work[q].sub.id] IN
                /\ row.grade # Null
                /\ row.grade[1].k = "finite"
                /\ InHundredths(row.grade[1]) = InHundredths(work[q].gradeNum)
                /\ row.status = "graded"
       ]_vars

C10_Witness ==
    /\ \E id \in SubIds : assignment_submissions[id].grade = <<Zero>>
    /\ \E id \in SubIds :
          assignment_submissions[id].grade = <<Decimal(PointsOf(AssignmentOf(id)), 0)>>
    /\ \E q \in GradeTabs :
          /\ selectedSubmission[q] # Null /\ ~grading[q] /\ work[q].pc = "idle"
          /\ grade[q] = <<49, 101, 49>>
          /\ HasToast(q, "Grade must be between 0 and", selectedSubmission[q].points)

\* C11: a submitGrade that gets past its update sets grade, feedback,
\* status graded, graded_at and graded_by on the selected submission only, and
\* its notification insert adds exactly one notification whose user_id is the
\* student who made the submission.
C11_GradedAndNotified ==
    [][\A q \in GradeTabs :
          /\ (work[q].pc = "update" /\ work'[q].pc = "notify") =>
                \A id \in SubIds :
                    IF id = work[q].sub.id
                    THEN LET row == assignment_submissions'[id] IN
                         /\ row.grade # Null
                         /\ InHundredths(row.grade[1]) = InHundredths(work[q].gradeNum)
                         /\ row.feedback = <<work[q].feedback>>
                         /\ row.status = "graded"
                         /\ row.graded_at = <<work[q].at>>
                         /\ row.graded_by = <<Teacher>>
                    ELSE assignment_submissions'[id] = assignment_submissions[id]
          /\ (work[q].pc = "notify" /\ work'[q].pc = "idle") =>
                /\ Len(notifications') = Len(notifications) + 1
                /\ notifications'[Len(notifications')].user_id = SubmitterOf(work[q].sub.id)
                /\ notifications'[Len(notifications')].type = "assignment_graded"
      ]_vars

StatusRank(st) == CASE st = "draft" -> 0 [] st = "submitted" -> 1 [] st = "graded" -> 2

\* C12: every submission with a grade has 0 <= grade <= points of its
\* assignment, whatever single and bulk grading operations the sessions ran.
C12_GradeWithinPoints ==
    \A id \in SubIds :
        assignment_submissions[id].grade # Null =>
            LET g == assignment_submissions[id].grade[1] IN
            /\ g.k = "finite"
            /\ 0 <= g.m
            /\ ~ExceedsPoints(g, PointsOf(AssignmentOf(id)))

C12_Witness ==
    /\ assignment_submissions["b1"].grade = <<Decimal(2, 0)>>
    /\ \E q \in GradeTabs : work[q].pc = "update" /\ work[q].sub.id = "b1"
    /\ \E q \in AllGradeTabs \ GradeTabs :
          work[q].pc = "bulk_update" /\ work[q].sub.id = "b1"

\* C13: the status of a submission never moves backwards along
\* draft, submitted, graded, and no step takes a draft straight to graded.
C13_StatusForwardOnly ==
    [][\A id \in SubIds :
          LET before == assignment_submissions[id].status
              after == assignment_submissions'[id].status
          IN /\ StatusRank(after) >= StatusRank(before)
             /\ ~(before = "draft" /\ after = "graded")
      ]_vars

C13_Witness ==
    /\ \A id \in Drafts : assignment_submissions[id].status = "draft"
    /\ \E q \in GradeTabs :
          /\ work[q].pc \in {"update", "bulk_update"}
          /\ assignment_submissions[work[q].sub.id].status = "graded"

ToastCount(seq, msg) == Cardinality({k \in 1..Len(seq) : seq[k].msg = msg})
InvalidIn(seq) == {id \in SubIds : \E k \in 1..Len(seq) :
                      seq[k] = [msg |-> "Invalid grade for", arg |-> id]}
BulkEnds(q) == work[q].pc \in {"bulk_session", "bulk_notify"} /\ work'[q].pc = "idle"
InsertedBy(q) == work[q].inserted + Len(notifications') - Len(notifications)

\* C14: a batch of M selected submissions in which exactly one is refused for
\* its points ceiling and every update succeeds grades the other M-1, leaves
\* the refused one untouched and inserts exactly M-1 notifications.
C14_BulkOneInvalid ==
    [][\A q \in GradeTabs :
          (/\ BulkEnds(q)
           /\ Cardinality(InvalidIn(toasts'[q])) = 1
           /\ work[q].failed = {}
           /\ Cardinality(work[q].changed) = work[q].size - 1) =>
              /\ \A id \in work[q].changed : assignment_submissions'[id].status = "graded"
              /\ InvalidIn(toasts'[q]) \cap work[q].changed = {}
              /\ InsertedBy(q) = work[q].size - 1
      ]_vars

\* C15: a batch issues the notification of a submission only after that
\* submission's update succeeded, and the notifications it inserted are as
\* many as the submissions it changed to graded.
C15_BulkNotifiesOnlyGraded ==
    [][\A q \in GradeTabs :
          /\ (work[q].pc = "bulk_update" /\ work'[q].pc = "bulk_notify") =>
                work[q].sub.id \in work'[q].changed
          /\ BulkEnds(q) => InsertedBy(q) = Cardinality(work[q].changed)
      ]_vars

\* C16: when an update of a batch fails, the rows the batch graded before stay
\* graded, nothing is undone, and the loop goes on to the rest of the batch.
C16_BulkNotAtomic ==
    [][\A q \in GradeTabs :
          /\ (work[q].pc = "bulk_update" /\ work'[q].failed # work[q].failed) =>
                /\ assignment_submissions' = assignment_submissions
                /\ work'[q].changed = work[q].changed
                /\ work'[q].queue = work[q].queue
                /\ work'[q].pc = "bulk_notify"
          /\ work[q].pc \in {"bulk_update", "bulk_notify"} =>
                \A id \in work[q].changed : assignment_submissions'[id].status = "graded"
      ]_vars

C16_Witness ==
    \E q \in GradeTabs :
        /\ work[q].pc = "bulk_notify"
        /\ work[q].changed # {} /\ work[q].failed # {}
        /\ \A id \in work[q].changed : assignment_submissions[id].status = "graded"
        /\ \A id \in work[q].failed : assignment_submissions[id].status = "submitted"

FailureToastRaised(q) ==
    /\ Len(toasts'[q]) > Len(toasts[q])
    /\ toasts'[q][Len(toasts'[q])].msg = "Failed to submit grade"

\* C17: when the update of submitGrade returns an error, one failure toast is
\* raised, no notification is inserted, no request is left in flight (the write
\* is not retried) and grading is false again.
C17_UpdateErrorHandling ==
    [][\A q \in GradeTabs :
          (work[q].pc = "update" /\ FailureToastRaised(q)) =>
              /\ toasts'[q] = Append(toasts[q], [msg |-> "Failed to submit grade", arg |-> Null])
              /\ ToastCount(toasts'[q], "Failed to submit grade") = 1
              /\ notifications' = notifications
              /\ assignment_submissions' = assignment_submissions
              /\ work'[q] = IdleWork
              /\ ~grading'[q]
              /\ selectedSubmission'[q] = selectedSubmission[q] /\ grade'[q] = grade[q]
      ]_vars

C17_Witness ==
    \E q \in GradeTabs :
        /\ HasToast(q, "Failed to submit grade", Null)
        /\ work[q].pc = "idle" /\ ~grading[q]
        /\ selectedSubmission[q] # Null
        /\ assignment_submissions[selectedSubmission[q].id].status = "submitted"

EnrollmentOf(rows, studentId, subjectId) ==
    {r \in rows : r.student_id = studentId /\ r.subject_id = subjectId}
EnrollNotifyStep(row) ==
    \E c \in Courses :
        /\ enroll[c].pc = "notify" /\ enroll'[c].pc = "idle"
        /\ row.user_id = enroll[c].user
GradeNotifyStep ==
    \E q \in GradeTabs : work[q].pc \in {"notify", "bulk_notify"} /\ work'[q].pc # work[q].pc

\* C18: a step leaves the notifications as they are or appends one, never
\* changes or removes one; an appended notification is course_enrolled for the
\* student of a handleEnroll whose enrollment insert succeeded, or
\* assignment_graded from a grading workflow.
C18_NotificationsAppendOnly ==
    [][\/ notifications' = notifications
       \/ /\ Len(notifications') = Len(notifications) + 1
          /\ SubSeq(notifications', 1, Len(notifications)) = notifications
          /\ LET row == notifications'[Len(notifications')] IN
             \/ row.type = "course_enrolled" /\ EnrollNotifyStep(row)
             \/ row.type = "assignment_graded" /\ GradeNotifyStep
      ]_vars

C18_Witness ==
    /\ Len(notifications) > 1
    /\ \A c \in Courses : EnrollmentOf(student_courses, "s1", c) # {}
    /\ assignment_submissions["b1"].status = "graded"
    /\ \E q \in GradeTabs :
          /\ work[q].pc = "idle"
          /\ HasToast(q, "Graded", 1)

\* C19: handleDrop removes the enrollment row of (student, course), and an
\* enrollment made afterwards starts from the defaults: the default progress,
\* not completed, no completed_at, no certificate_url.
C19_DropLosesEnrollmentState ==
    [][/\ \A c \in Courses :
            Quiescent /\ EnrollmentOf(student_courses, session, c) # {} =>
                ENABLED (handleDrop(c) /\ EnrollmentOf(student_courses', session, c) = {})
       /\ student_courses' \subseteq student_courses =>
            \A r \in student_courses \ student_courses' :
                EnrollmentOf(student_courses', r.student_id, r.subject_id) = {}
       /\ \A r \in student_courses' \ student_courses :
            EnrollmentOf(student_courses, r.student_id, r.subject_id) = {} =>
                /\ r.progress = DefaultProgress /\ ~r.completed
                /\ r.completed_at = Null /\ r.certificate_url = Null
      ]_vars

C19_Witness ==
    \E t \in Tabs : \E course \in completedCourses[t] :
        /\ \E r \in student_courses :
              r = NewRow(r.id, "s1", course.subject_id) /\ r.id # course.id
        /\ \E i \in InvIds : inv[i].pc = "free"
        /\ \E p \in storage : p[2] = "s1"

\* C20: handleDrop leaves every content_progress record as it was.
C20_DropKeepsContentProgress ==
    [][student_courses' \subseteq student_courses /\ student_courses' # student_courses
          => content_progress' = content_progress]_vars

C20_Witness ==
    /\ \A k \in Contents :
          [student_id |-> "s1", content_id |-> k, completed |-> TRUE] \in content_progress
    /\ \A c \in Courses : EnrollmentOf(student_courses, "s1", c) = {}
    /\ Len(notifications) > 0

\* C24: whenever generateCertificate returns a URL, a student_courses row of
\* (studentId, courseId) exists and holds exactly that URL, written by this
\* invocation.
C24_ReturnedUrlIsRecorded ==
    \A i \in InvIds :
        inv[i].pc = "finish" /\ inv[i].result # Null =>
            \E r \in student_courses :
                /\ r.student_id = inv[i].studentId
                /\ r.subject_id = inv[i].courseId
                /\ r.certificate_url = inv[i].result

\* C25: a submission is graded at most once: once its status is graded, no
\* later step changes its grade, feedback, graded_by or graded_at.
C25_GradedAtMostOnce ==
    [][\A id \in SubIds :
          assignment_submissions[id].status = "graded" =>
              assignment_submissions'[id] = assignment_submissions[id]]_vars

\* C26: every graded submission has a graded_at and a graded_by, and every
\* update that leaves a submission graded was authenticated, with graded_by
\* naming the user it was authenticated as; an update sent without a session
\* grades nothing.
C26_GradedByGrader ==
    /\ [](\A id \in SubIds :
            assignment_submissions[id].status = "graded" =>
                /\ assignment_submissions[id].graded_at # Null
                /\ assignment_submissions[id].graded_by # Null)
    /\ [][\A id \in SubIds :
            (/\ assignment_submissions'[id] # assignment_submissions[id]
             /\ assignment_submissions'[id].status = "graded") =>
                \E q \in GradeTabs :
                    /\ work[q].pc \in {"update", "bulk_update"}
                    /\ work[q].sub.id = id
                    /\ work[q].auth # NoSession
                    /\ assignment_submissions'[id].graded_at = <<work[q].at>>
                    /\ assignment_submissions'[id].graded_by = <<work[q].auth>>
       ]_vars

C26_Witness ==
    /\ assignment_submissions["b1"].status = "graded"
    /\ assignment_submissions["b1"].graded_by = <<Teacher>>
    /\ \E q \in GradeTabs :
          /\ work[q].pc \in {"notify", "bulk_notify"}
          /\ work[q].sub.id = "b1"
          /\ work[q].user = Undefined
          /\ work[q].failed = {}
          /\ assignment_submissions["b1"].graded_at # <<work[q].at>>

\* C27: the count a finished batch reports in "Graded <n> submissions" is the
\* number of submissions whose row the batch changed to graded.
C27_ReportedCountIsGradedCount ==
    [][\A q \in GradeTabs :
          BulkEnds(q) =>
              /\ toasts'[q] # <<>>
              /\ toasts'[q][Len(toasts'[q])].msg = "Graded"
              /\ toasts'[q][Len(toasts'[q])].arg = Cardinality(work[q].changed)
      ]_vars

\* C28: in a GradingQueue session the grading flag is true exactly while a
\* grading workflow is in flight, and no submitGrade or handleBulkGrade starts
\* while it is true.
C28_OneWorkflowInFlight ==
    [][\A q \in GradeTabs :
          /\ grading[q] <=> work[q].pc # "idle"
          /\ grading'[q] <=> work'[q].pc # "idle"
          /\ work[q].pc # "idle" => ~(submitGrade(q) \/ handleBulkGrade(q))
      ]_vars

C28_Witness ==
    \E q \in GradeTabs :
        /\ grading[q]
        /\ work[q].pc = "bulk_update"
        /\ work[q].changed # {}
        /\ selectedSubmission[q] # Null
        /\ grade[q] # <<>>

\* C29: while generateCertificate of an invocation is running for a course,
\* generatingCert of its Progress page is that course's id, so the button of
\* the course is disabled.
C29_GeneratingCertWhileInFlight ==
    \A i \in InvIds :
        inv[i].pc \in {"upload", "update"} =>
            /\ generatingCert[inv[i].tab] = <<inv[i].rowId>>
            /\ \A course \in completedCourses[inv[i].tab] :
                  course.id = inv[i].rowId => ~ButtonEnabled(inv[i].tab, course)

AggregatedNow(c) == ProgressAggregation(content, content_progress, session, c)

\* C21: for a course with N content items of which the student completed K,
\* Progress Aggregation gives the integer nearest to 100*K/N (halves up) when
\* N > 0 and 0 when N = 0, always within 0..100.
C21_AggregationFormula ==
    \A c \in Courses :
        LET N == Cardinality(ItemsOf(content, c))
            K == Cardinality({r \in content_progress :
                                 /\ r.student_id = session /\ r.completed
                                 /\ \E x \in content : x.id = r.content_id /\ x.subject_id = c})
            p == AggregatedNow(c)
        IN /\ p \in 0..100
           /\ N = 0 => p = 0
           /\ N > 0 => /\ 2 * N * p <= 200 * K + N
                       /\ 200 * K + N < 2 * N * (p + 1)

C21_Witness ==
    /\ Cardinality(ItemsOf(content, "c1")) = 8
    /\ Cardinality(CompletedOf(content_progress, "s1", ItemsOf(content, "c1"))) = 3
    /\ \E r \in student_courses : r.student_id = "s1" /\ r.progress = 38

\* C22: an enrollment whose progress is 100 is completed with completed_at
\* set, and a completed_at that is set is never changed by a later
\* aggregation.
C22_CompletedAtSetOnce ==
    [][\A r \in student_courses, r2 \in student_courses' :
          r2.id = r.id =>
              /\ r2.progress = 100 => r2.completed /\ r2.completed_at # Null
              /\ r.completed_at # Null => r2.completed_at = r.completed_at
      ]_vars

C22_Witness ==
    /\ now = 1
    /\ AggregatedNow("c1") = 100
    /\ \E r \in student_courses :
          /\ r.student_id = "s1" /\ r.subject_id = "c1"
          /\ r.progress = 100 /\ r.completed /\ r.completed_at = <<0>>

\* C23: every enrollment with completed = true has a completed_at.
C23_CompletedHasTimestamp ==
    \A r \in student_courses : r.completed => r.completed_at # Null

C23_Witness ==
    /\ \E r \in student_courses :
          r.student_id = "s1" /\ r.completed /\ r.certificate_url # Null
    /\ \E r \in student_courses :
          r.student_id = "s1" /\ ~r.completed /\ r.completed_at = Null

\* C30: a content row is inserted only by an invocation whose upload
\* succeeded, with the uploaded path as file_path and the stored object
\* holding the file chosen in that invocation; a failed upload inserts no row
\* and resets uploading; every row the workflow created references a stored
\* object, and a stored object keeps its file.
C30_ExamRowAfterUpload ==
    [][/\ \A row \in content' \ content :
            \E e \in ExamTabs :
                /\ exam[e].pc = "insert"
                /\ row.file_path = exam[e].fileName
                /\ [path |-> row.file_path, file |-> exam[e].file] \in stored_file'
       /\ \A e \in ExamTabs :
            (exam[e].pc = "upload" /\ exam'[e].pc = "idle") =>
                content' = content /\ ~uploading'[e]
       /\ \A o \in stored_file : o \in stored_file'
       /\ \A row \in content' :
            row.id \in ExamRowIds =>
                /\ row.file_path \in storage'
                /\ \E o \in stored_file' : o.path = row.file_path
      ]_vars

C30_Witness ==
    /\ \E r1 \in content, r2 \in content :
          /\ r1.id \in ExamRowIds /\ r2.id \in ExamRowIds /\ r1.file_path # r2.file_path
          /\ \E o1 \in stored_file, o2 \in stored_file :
                /\ o1.path = r1.file_path /\ o2.path = r2.file_path
                /\ o1.file # o2.file
          /\ \E e \in ExamTabs : pastExams[e] = {r1.id, r2.id}
    /\ OtherContent \subseteq content
    /\ \E e \in ExamTabs : exam[e].pc = "idle" /\ selectedFile[e] # Null
====
